---- MODULE Spec2Model ----
(***************************************************************************)
(* A model of the torgi.gov.ru open-data collector (src/main.py and        *)
(* src/fetch_privatization_plans.py): the snapshot selector, the store of  *)
(* privatizationplans / privatizationplansdetail / privatizationobjects    *)
(* and the four document tables, the document file cache and the document  *)
(* flattener.                                                              *)
(*                                                                         *)
(* Five specifications share the variables:                                *)
(*   SpecSel   the selectors, applied to bounded manifests;                *)
(*   Spec      sequential runs of the three operating modes against one    *)
(*             database and one documents directory;                       *)
(*   SpecFlat  process_document_file's flattening, applied to bounded      *)
(*             documents;                                                  *)
(*   SpecOverlap two runs at once on one database, statement by statement; *)
(*   SpecName  the table name derived from bounded catalog identifiers.    *)
(***************************************************************************)
EXTENDS Integers, Sequences, FiniteSets, TLC

VARIABLES
    selIn,      \* selector input: manifest, today, days, payload of each source
                \* (in SpecName: the catalog identifier)
    selOut,     \* selector output: which selector ran and what it returned
                \* (in SpecName: the table names derived)
    schema,     \* which tables exist, and the column set of privatizationplans
    plans,      \* committed rows of privatizationplans
    details,    \* committed rows of privatizationplansdetail
    objects,    \* committed rows of privatizationobjects
    docrows,    \* committed rows of the four document tables
    files,      \* privatizationplans/documents: file name -> content
    run,        \* the run in progress: mode, queue, position, counters, transaction
    runNo,      \* number of runs started so far (also CURRENT_TIMESTAMP)
    fetches,    \* document hrefs fetched over the network, in order
    last,       \* what the last step did: operation, argument, result
    flatIn,     \* flattener input: document type and variant object
    flatOut     \* flattener output: raised or the flat field map

selVars == <<selIn, selOut>>
dbVars == <<schema, plans, details, objects, docrows>>
storeVars == <<schema, plans, details, objects, docrows, files, run, runNo, fetches, last>>
flatVars == <<flatIn, flatOut>>
vars == <<selIn, selOut, schema, plans, details, objects, docrows, files, run, runNo,
          fetches, last, flatIn, flatOut>>

\* No run in progress.  opened and closed count the database connections that
\* the last run opened (get_db_connection) and closed (conn.close()).
NoRun == [mode |-> "idle", opened |-> 0, closed |-> 0]
Nothing == [op |-> "none"]

(***************************************************************************)
(* Bounds of the model.                                                    *)
(***************************************************************************)
MaxManifest == 3
MaxDays == 2
MaxRuns == 3
MaxName == 3

(***************************************************************************)
(* JSON values.  A value is a record tagged by its kind: null, a scalar     *)
(* (string, number, boolean), an object (a function from key to value) or  *)
(* an array (a sequence of values).  A key absent from an object is absent *)
(* from the function's domain.  Python's None is JNull.                    *)
(***************************************************************************)
JNull == [t |-> "null"]
JS(s) == [t |-> "s", v |-> s]
JO(f) == [t |-> "obj", v |-> f]
JA(q) == [t |-> "arr", v |-> q]
\* An object with the order of its keys in the file.
Doc(order, f) == [t |-> "obj", v |-> f, order |-> order]

NoKeys == <<>>
EmptyObj == JO(NoKeys)
EmptyArr == JA(<<>>)

IsObj(x) == x.t = "obj"
IsArr(x) == x.t = "arr"

\* Python truthiness of a JSON value: None, "", {} and [] are falsy.
Truthy(x) ==
    CASE x.t = "null" -> FALSE
      [] x.t = "s" -> x.v # ""
      [] x.t = "obj" -> DOMAIN x.v # {}
      [] x.t = "arr" -> Len(x.v) > 0
      [] OTHER -> TRUE

\* dict.get(k): the value, or None when the key is absent.  Only for objects.
Get(x, k) == IF k \in DOMAIN x.v THEN x.v[k] ELSE JNull
\* dict.get(k, d)
GetOr(x, k, d) == IF k \in DOMAIN x.v THEN x.v[k] ELSE d

(***************************************************************************)
(* Text.  A text is a sequence of one-character strings, so that "in"      *)
(* (substring containment) and strftime are computed, not assumed.         *)
(***************************************************************************)
Digits == <<"0", "1", "2", "3", "4", "5", "6", "7", "8", "9">>

\* str in text
Contains(sub, text) ==
    \E i \in 0..(Len(text) - Len(sub)) : SubSeq(text, i + 1, i + Len(sub)) = sub

\* A calendar date is a day of January 2024; strftime("%d.%m.%Y") of it.
DateStr(day) ==
    <<Digits[(day \div 10) + 1], Digits[(day % 10) + 1], ".", "0", "1", ".",
      "2", "0", "2", "4">>

\* today - timedelta(days = i + 1) for i in range(days)
DatesToFetch(today, days) == [i \in 1..days |-> today - i]

(***************************************************************************)
(* Snapshot descriptors and manifests.                                     *)
(*                                                                         *)
(* A source URL is a sequence of pieces; the piece after "data-" and the   *)
(* one after "T0000-" are the two dates of the file name when they are     *)
(* eight digits long.                                                      *)
(***************************************************************************)
Date8 == {"20240105", "20240106", "20240107"}
SrcA == <<"data-", "20240105", "T0000-", "20240106", "T0000", "a.json">>
SrcB == <<"data-", "20240106", "T0000-", "20240107", "T0000", "b.json">>
SrcC == <<"plans", "c.json">>
Sources == {SrcA, SrcB, SrcC}

\* re.search(r"data-(\d{8})T0000-(\d{8})T0000", source): the two groups, or none.
DateRange(source) ==
    LET hits == {i \in 1..(Len(source) - 4) :
                    /\ source[i] = "data-"
                    /\ source[i + 1] \in Date8
                    /\ source[i + 2] = "T0000-"
                    /\ source[i + 3] \in Date8
                    /\ source[i + 4] = "T0000"}
    IN  IF hits = {}
        THEN [start |-> JNull, end |-> JNull]
        ELSE LET i == CHOOSE j \in hits : \A k \in hits : j <= k
             IN  [start |-> JS(source[i + 1]), end |-> JS(source[i + 3])]

\* Provenance texts: "za <date>", one with two dates, one with none.
Prov ==
    LET za == <<"z", "a", " ">>
    IN  [d05 |-> za \o DateStr(5), d06 |-> za \o DateStr(6), d15 |-> za \o DateStr(15),
         both |-> za \o DateStr(5) \o <<"-">> \o DateStr(6),
         none |-> <<"n", "o", "n", "e">>]

Descriptor(source, created, provenance) ==
    [source |-> source, created |-> created, provenance |-> provenance,
     valid |-> "v1", structure |-> "st1"]

DescA == Descriptor(SrcA, "c1", Prov.d05)
DescA2 == Descriptor(SrcA, "c2", Prov.d05)
DescB == Descriptor(SrcB, "c1", Prov.d06)
DescC == Descriptor(SrcC, "c1", Prov.d15)
DescAB == Descriptor(SrcC, "c1", Prov.both)
DescN == Descriptor(SrcC, "c1", Prov.none)

(***************************************************************************)
(* The selector of fetch_privatization_plans_data: for each item of the    *)
(* manifest, the first date of dates_to_fetch whose string is in the       *)
(* provenance selects the item (break).                                    *)
(***************************************************************************)
RECURSIVE FirstDate(_, _, _)
FirstDate(dates, k, provenance) ==
    IF k > Len(dates) THEN 0
    ELSE IF Contains(DateStr(dates[k]), provenance) THEN k
    ELSE FirstDate(dates, k + 1, provenance)

FoundItem(item, date) ==
    [source |-> item.source, provenance |-> item.provenance, date |-> date,
     created |-> item.created, valid |-> item.valid, structure |-> item.structure]

\* FoundItems without the break of the inner loop: one entry per matching date.
RECURSIVE FoundItemsNoBreak(_, _)
FoundItemsNoBreak(data, dates) ==
    IF data = <<>> THEN <<>>
    ELSE LET item == Head(data)
             hit == {k \in 1..Len(dates) : Contains(DateStr(dates[k]), item.provenance)}
             RECURSIVE Each(_)
             Each(k) == IF k > Len(dates) THEN <<>>
                        ELSE (IF k \in hit THEN <<FoundItem(item, dates[k])>> ELSE <<>>)
                                 \o Each(k + 1)
         IN  Each(1) \o FoundItemsNoBreak(Tail(data), dates)

RECURSIVE FoundItems(_, _)
FoundItems(data, dates) ==
    IF data = <<>> THEN <<>>
    ELSE LET item == Head(data)
             k == FirstDate(dates, 1, item.provenance)
         IN  (IF k = 0 THEN <<>> ELSE <<FoundItem(item, dates[k])>>)
                 \o FoundItems(Tail(data), dates)

(***************************************************************************)
(* Payloads behind a source URL: the download fails, or answers a JSON     *)
(* value.                                                                  *)
(***************************************************************************)
NetFail == [t |-> "fail"]
FullList == JA(<<JS("row")>>)

\* not data or (isinstance(data, dict) and not data)
IsEmptyPayload(data) == ~Truthy(data)

NoneTriple == [ok |-> FALSE]

\* The first item of the manifest satisfying want(provenance has the date), or 0.
RECURSIVE FirstItem(_, _, _, _)
FirstItem(data, i, dateStr, want) ==
    IF i > Len(data) THEN 0
    ELSE IF Contains(dateStr, data[i].provenance) = want THEN i
    ELSE FirstItem(data, i + 1, dateStr, want)

\* fetch_privatization_plans_yesterday of src/fetch_privatization_plans.py.
FetchYesterday(data, today, payload) ==
    LET str == DateStr(today - 1)
        m == FirstItem(data, 1, str, TRUE)
    IN  IF m = 0 THEN NoneTriple
        ELSE LET first == payload[data[m].source]
             IN  IF first = NetFail THEN NoneTriple
                 ELSE LET o == IF IsEmptyPayload(first)
                               THEN FirstItem(data, 1, str, FALSE)
                               ELSE 0
                          pick == IF o = 0 THEN m ELSE o
                          second == payload[data[pick].source]
                      IN  IF second = NetFail \/ IsEmptyPayload(second)
                          THEN NoneTriple
                          ELSE [ok |-> TRUE, index |-> pick,
                                source |-> data[pick].source, data |-> second,
                                range |-> DateRange(data[pick].source)]

\* fetch_dataset_data of src/main.py: the loop from the end of data_list.
RECURSIVE LatestNonEmpty(_, _, _)
LatestNonEmpty(data, i, payload) ==
    IF i < 1 THEN [kind |-> "meta"]
    ELSE LET p == payload[data[i].source]
         IN  IF p = NetFail THEN [kind |-> "none"]
             ELSE IF Truthy(p)
                  THEN [kind |-> "data", index |-> i, source |-> data[i].source,
                        data |-> p]
                  ELSE LatestNonEmpty(data, i - 1, payload)

FetchDatasetData(data, payload) == LatestNonEmpty(data, Len(data), payload)

(***************************************************************************)
(* SpecSel: the selectors applied to every bounded manifest.               *)
(***************************************************************************)
SelIdle == [op |-> "none"]

\* Every manifest of up to MaxManifest descriptors, and what the sources answer.
SelInit ==
    LET descriptors == {DescA, DescB, DescC, DescAB, DescN}
        manifests == UNION {[1..n -> descriptors] : n \in 0..MaxManifest}
        payloads == {p \in [Sources -> {FullList, EmptyArr, EmptyObj, NetFail}] :
                        /\ p[SrcA] # NetFail
                        /\ p[SrcC] \in {FullList, NetFail}}
    IN  /\ selIn \in [manifest : manifests, today : {7, 8}, days : 1..MaxDays,
                      payload : payloads]
        /\ selOut = SelIdle

SelectByDates ==
    /\ selOut = SelIdle
    /\ selOut' = [op |-> "dates",
                  found |-> FoundItems(selIn.manifest,
                                       DatesToFetch(selIn.today, selIn.days))]
    /\ UNCHANGED <<selIn, storeVars, flatVars>>

SelectYesterday ==
    /\ selOut = SelIdle
    /\ selOut' = [op |-> "yesterday",
                  result |-> FetchYesterday(selIn.manifest, selIn.today, selIn.payload)]
    /\ UNCHANGED <<selIn, storeVars, flatVars>>

SelectLatest ==
    /\ selOut = SelIdle
    /\ selOut' = [op |-> "latest",
                  result |-> FetchDatasetData(selIn.manifest, selIn.payload)]
    /\ UNCHANGED <<selIn, storeVars, flatVars>>

SelNext == SelectByDates \/ SelectYesterday \/ SelectLatest

(***************************************************************************)
(* The database.                                                           *)
(*                                                                         *)
(* schema.plans is the column set privatizationplans was created with:     *)
(* "category" by create_category_table (with provenance), "privatization"  *)
(* by create_privatization_tables (without), "none" while it does not      *)
(* exist.  SERIAL ids are modelled as the smallest id above those of the   *)
(* table as the transaction sees it; CURRENT_TIMESTAMP is the run number.  *)
(* Column values are JSON values; the texts of the model fit their columns.*)
(***************************************************************************)
NextId(rows) ==
    LET ids == {r.id : r \in rows}
    IN  IF ids = {} THEN 1 ELSE (CHOOSE n \in ids : \A m \in ids : m <= n) + 1

RECURSIVE SortById(_)
SortById(rows) ==
    IF rows = {} THEN <<>>
    ELSE LET r == CHOOSE x \in rows : \A y \in rows : x.id <= y.id
         IN  <<r>> \o SortById(rows \ {r})

\* The columns of privatizationplans, by the function whose CREATE TABLE made it.
PlansColumns(made_by) ==
    LET common == {"id", "source", "created", "valid", "structure", "date_range_start",
                   "date_range_end", "created_at"}
    IN  CASE made_by = "category" -> common \cup {"provenance"}
          [] made_by = "privatization" -> common
          [] OTHER -> {}

\* create_category_table: CREATE TABLE IF NOT EXISTS <table> with provenance.
CreateCategoryTable(sch) ==
    [sch EXCEPT !.plans = IF sch.plans = "none" THEN "category" ELSE sch.plans]

\* create_privatization_tables: both CREATE TABLE IF NOT EXISTS.
CreatePrivatizationTables(sch) ==
    [sch EXCEPT !.plans = IF sch.plans = "none" THEN "privatization" ELSE sch.plans,
                !.detail = TRUE]

\* SELECT id FROM privatizationplans WHERE source = %s
PlanBySource(rows, source) == {r \in rows : r.source = source}

\* SELECT id FROM privatizationplansdetail WHERE href = %s (NULL = NULL is not true)
DetailByHref(rows, href) == {r \in rows : href # JNull /\ r.href = href}

PlanRow(id, source, created, provenance, valid, structure, now) ==
    [id |-> id, source |-> source, created |-> created, provenance |-> provenance,
     valid |-> valid, structure |-> structure,
     date_range_start |-> DateRange(source).start,
     date_range_end |-> DateRange(source).end, created_at |-> now]

\* The texts PostgreSQL accepts for a TIMESTAMP column; "" is not one.
TimestampTexts == {"2024-01-05T10:00:00"}
ValidTimestamp(x) == x = JNull \/ (x.t = "s" /\ x.v \in TimestampTexts)

\* The row of one detail.  created_at is left out: nothing reads it.  The
\* empty text that stands for a missing href is the empty path.
NoText == JS(<<>>)
DetailRow(id, plan_id, detail) ==
    [id |-> id, privatizationplansid |-> plan_id,
     hostingOrg |-> GetOr(detail, "hostingOrg", JS("")),
     bidderOrgCode |-> GetOr(detail, "bidderOrgCode", JS("")),
     documentType |-> GetOr(detail, "documentType", JS("")),
     regNum |-> GetOr(detail, "regNum", JS("")),
     publishDate |-> GetOr(detail, "publishDate", JS("")),
     href |-> GetOr(detail, "href", NoText)]

(***************************************************************************)
(* save_privatization_data_to_db.  A transaction is the tables as the      *)
(* connection sees them (committed rows and its own writes) and a state:   *)
(* "open", or "aborted" after a statement failed in the database (every    *)
(* later statement then fails until a rollback).                           *)
(***************************************************************************)
\* A mutant of SaveDetails: a detail whose href is stored is moved to the plan
\* of the call (as ON CONFLICT (href) DO UPDATE would).
RECURSIVE SaveDetailsReowning(_, _, _)
SaveDetailsReowning(rows, list, plan_id) ==
    IF list = <<>> THEN [rows |-> rows, end |-> "done"]
    ELSE LET detail == Head(list)
             hit == IF IsObj(detail) THEN DetailByHref(rows, GetOr(detail, "href", NoText))
                    ELSE {}
         IN  IF ~IsObj(detail) THEN [rows |-> rows, end |-> "pyerror"]
             ELSE IF hit # {}
                  THEN SaveDetailsReowning(
                           {IF r \in hit THEN [r EXCEPT !.privatizationplansid = plan_id]
                            ELSE r : r \in rows}, Tail(list), plan_id)
             ELSE IF ~ValidTimestamp(GetOr(detail, "publishDate", JS("")))
                  THEN [rows |-> rows, end |-> "dberror"]
             ELSE SaveDetailsReowning(
                      rows \cup {DetailRow(NextId(rows), plan_id, detail)},
                      Tail(list), plan_id)

\* The loop over details: the transaction's tables after it, and how it ended:
\* "done", "pyerror" (detail.get on a non-dict) or "dberror" (the INSERT failed).
RECURSIVE SaveDetails(_, _, _)
SaveDetails(rows, list, plan_id) ==
    IF list = <<>> THEN [rows |-> rows, end |-> "done"]
    ELSE LET detail == Head(list)
         IN  IF ~IsObj(detail) THEN [rows |-> rows, end |-> "pyerror"]
             ELSE IF DetailByHref(rows, GetOr(detail, "href", NoText)) # {}
                  THEN SaveDetails(rows, Tail(list), plan_id)
             ELSE IF ~ValidTimestamp(GetOr(detail, "publishDate", JS("")))
                  THEN [rows |-> rows, end |-> "dberror"]
             ELSE SaveDetails(rows \cup {DetailRow(NextId(rows), plan_id, detail)},
                              Tail(list), plan_id)

\* data.get("listObjects", []) if isinstance(data, dict) else data
DetailsOf(data) == IF IsObj(data) THEN GetOr(data, "listObjects", EmptyArr) ELSE data

\* A mutant of SavePlan: the id is taken for granted, no row is looked up or
\* written.
SavePlanUnwritten(rows, source, created, valid, structure, now) ==
    [rows |-> rows, plan_id |-> NextId(rows)]

\* The plan id: the existing row's, or the inserted row's.
SavePlan(rows, source, created, valid, structure, now) ==
    LET existing == PlanBySource(rows, source)
    IN  IF existing # {}
        THEN [rows |-> rows, plan_id |-> (CHOOSE r \in existing : TRUE).id]
        ELSE [rows |-> rows \cup {PlanRow(NextId(rows), source, JS(created), JNull,
                                          JS(valid), JS(structure), now)},
              plan_id |-> NextId(rows)]

\* The whole function on transaction tx: the transaction after it, what is
\* committed, and how the call ended ("saved", "pyerror", "dberror").
SavePrivatizationData(tx, item, data, now) ==
    IF tx.state = "aborted" THEN [tx |-> tx, commit |-> FALSE, end |-> "dberror"]
    ELSE LET p == SavePlan(tx.plans, item.source, item.created, item.valid,
                           item.structure, now)
             list == DetailsOf(data)
             d == IF Truthy(list) /\ IsArr(list)
                  THEN SaveDetails(tx.details, list.v, p.plan_id)
                  ELSE [rows |-> tx.details, end |-> "done"]
         IN  CASE d.end = "done" ->
                    [tx |-> [state |-> "open", plans |-> p.rows, details |-> d.rows],
                     commit |-> TRUE, end |-> "saved"]
               [] d.end = "pyerror" ->
                    [tx |-> [state |-> "open", plans |-> p.rows, details |-> d.rows],
                     commit |-> FALSE, end |-> "pyerror"]
               [] OTHER ->
                    [tx |-> [tx EXCEPT !.state = "aborted"],
                     commit |-> FALSE, end |-> "dberror"]

(***************************************************************************)
(* Inputs of the runs: document hrefs (sequences of path segments; the     *)
(* last is the file name), snapshot payloads, manifests.                   *)
(***************************************************************************)
H1 == <<"docs", "a", "f1.json">>
H2 == <<"docs", "b", "f2.json">>
H3 == <<"docs", "c", "f1.json">>

Detail(href, documentType) ==
    JO([hostingOrg |-> JS("org1"), bidderOrgCode |-> JS("b1"),
        documentType |-> JS(documentType), regNum |-> JS("r1"),
        publishDate |-> JS("2024-01-05T10:00:00"), href |-> JS(href)])

DetailNullHref ==
    JO([documentType |-> JS("privatizationPlan"),
        publishDate |-> JS("2024-01-05T10:00:00"), href |-> JNull])
DetailNoDate == JO([documentType |-> JS("planCancel"), href |-> JS(H2)])

PayPlans == JA(<<Detail(H1, "privatizationPlan"), Detail(H2, "privatizationPlan")>>)
PayDict == JO([listObjects |-> JA(<<Detail(H2, "privatizationPlan"),
                                    Detail(H3, "privatizationDecision")>>)])
PayNullHref == JA(<<DetailNullHref>>)
PayNoDate == JA(<<Detail(H3, "privatizationDecision"), DetailNoDate>>)
PayNotDict == JA(<<Detail(H1, "privatizationPlan"), JS("text")>>)
\* A snapshot whose only detail has no publishDate: its INSERT fails.
PayBadDate == JA(<<DetailNoDate>>)
\* A document of a type that has no table.
PayOther == JA(<<Detail(H1, "planChange")>>)

\* What GET <source> answers in Spec: each snapshot has its payloads.
SnapshotAnswers(source) ==
    IF source = SrcA THEN {PayPlans, PayNotDict, PayOther, PayBadDate, NetFail}
    ELSE {PayDict, PayNullHref, PayNoDate, NetFail}
Payloads ==
    {PayPlans, PayNotDict, PayOther, PayBadDate, PayDict, PayNullHref, PayNoDate, NetFail}

Manifests == {<<DescA, DescB>>, <<DescA2, DescB>>}
\* What GET meta.json answers: a manifest, or the request fails.
MetaAnswers == {[t |-> "meta", data |-> m] : m \in Manifests} \cup {NetFail}
Todays == {7}

(***************************************************************************)
(* The document tables: the columns an INSERT may name (create_document_   *)
(* tables; id and created_at are filled by the database).                  *)
(***************************************************************************)
DocumentTypes == {"privatizationPlan", "privatizationDecision", "planCancel", "planReport"}

\* table_name of process_document_file
TableOf(document_type) ==
    CASE document_type = "privatizationPlan" -> "privatizationplan"
      [] document_type = "privatizationDecision" -> "privatizationdecision"
      [] document_type = "planCancel" -> "plancancel"
      [] document_type = "planReport" -> "planreport"

ColumnsOf(table) ==
    LET
        PrivatizationplanColumns ==
            {"privatizationplansdetail_id", "schemeversion", "id_field", "version",
             "plannumber", "name", "publishdate", "timezone_code", "timezone_name",
             "signingdate", "hostingorg_code", "hostingorg_name", "hostingorg_inn",
             "hostingorg_kpp", "hostingorg_ogrn", "hostingorg_orgtype", "planingperiod",
             "startyear", "endyear", "signingdate_plan", "documentnumber",
             "ownershipforms_code", "ownershipforms_name", "budget_code", "budget_name",
             "budget_codeokfs", "authority", "budgetrevenueforecast_sumfirstyear",
             "budgetrevenueforecast_sumsecondyear", "budgetrevenueforecast_sumthirdyear",
             "attachments_id", "attachments_name", "attachments_size", "attachments_hash",
             "attachments_attachmenttype_code", "attachments_attachmenttype_name",
             "signeddata_id", "signeddata_size", "signeddata_hash", "signeddata_filetype"}
        PrivatizationdecisionColumns ==
            {"privatizationplansdetail_id", "schemeversion", "id_field", "decisionnumber",
             "publishdate", "timezone_code", "timezone_name", "hostingorg_code",
             "bidderorg_code", "bidderorg_name", "bidderorg_inn", "bidderorg_kpp",
             "bidderorg_ogrn", "bidderorg_orgtype", "bidderorg_unregistered",
             "privatizationreason", "startprice", "biddforms_code", "biddforms_name",
             "stockinfo_minusone", "privatizationobject_plannumber",
             "privatizationobject_objectnumber", "privatizationobject_name",
             "privatizationobject_type", "privatizationobject_isnotinplan", "attachments_id",
             "attachments_name", "attachments_size", "attachments_hash",
             "attachments_attachmenttype_code", "attachments_attachmenttype_name",
             "signeddata_id", "signeddata_size", "signeddata_hash", "signeddata_filetype"}
        PlancancelColumns ==
            {"privatizationplansdetail_id", "schemeversion", "id_field", "plannumber", "name",
             "cancellationdate", "timezone_code", "timezone_name", "reason", "decisiondate",
             "decisionnumber", "attachments_id", "attachments_name", "attachments_size",
             "attachments_hash", "attachments_attachmenttype_code",
             "attachments_attachmenttype_name", "signeddata_id", "signeddata_size",
             "signeddata_hash", "signeddata_filetype"}
        PlanreportColumns ==
            {"privatizationplansdetail_id", "schemeversion", "id_field", "version", "rootid",
             "name", "publishdate", "signingdate", "year", "timezone_code", "timezone_name",
             "hostingorg_code", "hostingorg_name", "hostingorg_inn", "hostingorg_kpp",
             "hostingorg_ogrn", "hostingorg_orgtype", "privatizationplan_number",
             "privatizationplan_name", "privatizationplan_planingperiod",
             "ownershipforms_code", "ownershipforms_name", "budget_code", "budget_name",
             "budget_codeokfs", "subjectrf_code", "subjectrf_name",
             "reportdata_enterprisedata_plancount", "reportdata_enterprisedata_excludedcount",
             "reportdata_enterprisedata_factcount", "reportdata_companiesdata_plancount",
             "reportdata_companiesdata_excludedcount",
             "reportdata_companiesdata_tenderedcount",
             "reportdata_companiesdata_auction_count",
             "reportdata_companiesdata_auction_startsum",
             "reportdata_companiesdata_auction_salesum",
             "reportdata_companiesdata_publicoffer_count",
             "reportdata_companiesdata_publicoffer_startsum",
             "reportdata_companiesdata_publicoffer_salesum",
             "reportdata_companiesdata_competition_count",
             "reportdata_companiesdata_competition_startsum",
             "reportdata_companiesdata_competition_salesum",
             "reportdata_otherpropertydata_plancount",
             "reportdata_otherpropertydata_tenderedcount",
             "reportdata_otherpropertydata_auction_count",
             "reportdata_otherpropertydata_auction_startsum",
             "reportdata_otherpropertydata_auction_salesum",
             "reportdata_otherpropertydata_publicoffer_count",
             "reportdata_otherpropertydata_publicoffer_startsum",
             "reportdata_otherpropertydata_publicoffer_salesum",
             "reportdata_otherpropertydata_competition_count",
             "reportdata_otherpropertydata_competition_startsum",
             "reportdata_otherpropertydata_competition_salesum",
             "reportdata_revenuesdata_planrevenues",
             "reportdata_revenuesdata_planbudgetdeficitfinancingsum",
             "reportdata_revenuesdata_factbudgetdeficitfinancingtotalsum",
             "reportdata_revenuesdata_factbudgetdeficitfinancingthisyearsum",
             "reportdata_revenuesdata_factbudgetdeficitfinancinglastyearsum",
             "reportdata_revenuesdata_plannontaxrevenuesum",
             "reportdata_revenuesdata_factnontaxrevenuetotalsum",
             "reportdata_revenuesdata_factnontaxrevenuethisyeartotalsum",
             "reportdata_revenuesdata_factnontaxrevenuelastyeartotalsum", "attachments_id",
             "attachments_name", "attachments_size", "attachments_hash",
             "attachments_attachmenttype_code", "attachments_attachmenttype_name",
             "signeddata_id", "signeddata_size", "signeddata_hash", "signeddata_filetype"}
    IN  CASE table = "privatizationplan" -> PrivatizationplanColumns
          [] table = "privatizationdecision" -> PrivatizationdecisionColumns
          [] table = "plancancel" -> PlancancelColumns
          [] table = "planreport" -> PlanreportColumns

(***************************************************************************)
(* The flattener of process_document_file.  Each field of FlatCols maps the *)
(* flat_data keys one branch assigns (at the lines of main.py given) to    *)
(* the keys it reads them from.                                            *)
(***************************************************************************)
FlatCols ==
    [ \* lines 825-827
     cancelCommon |->
         [plannumber |-> "planNumber", name |-> "name",
          cancellationdate |-> "cancellationDate"],
     \* lines 835-840
     reportCommon |->
         [privatizationplan_number |-> "planNumber", name |-> "name",
          publishdate |-> "publishDate", signingdate |-> "signingDate"],
     \* lines 848-849
     decisionCommon |->
         [decisionnumber |-> "decisionNumber", publishdate |-> "publishDate"],
     \* lines 846-861
     decisionTop |->
         [schemeversion |-> "schemeVersion", id_field |-> "id",
          privatizationreason |-> "privatizationReason", startprice |-> "startPrice"],
     \* lines 890-895
     planCommon |->
         [plannumber |-> "planNumber", name |-> "name", publishdate |-> "publishDate",
          signingdate |-> "signingDate"],
     \* lines 828-829
     timeZone |->
         [timezone_code |-> "code", timezone_name |-> "name"],
     \* lines 830-833
     signedData |->
         [signeddata_id |-> "id", signeddata_size |-> "size", signeddata_hash |-> "hash",
          signeddata_filetype |-> "fileType"],
     \* lines 852-852
     decisionHostingOrg |->
         [hostingorg_code |-> "code"],
     \* lines 853-859
     bidderOrg |->
         [bidderorg_code |-> "code", bidderorg_name |-> "name", bidderorg_inn |-> "INN",
          bidderorg_kpp |-> "KPP", bidderorg_ogrn |-> "OGRN",
          bidderorg_orgtype |-> "orgType", bidderorg_unregistered |-> "unregistered"],
     \* lines 862-862
     stockInfo |->
         [stockinfo_minusone |-> "minusOne"],
     \* lines 863-867
     privatizationObject |->
         [privatizationobject_plannumber |-> "planNumber",
          privatizationobject_objectnumber |-> "objectNumber",
          privatizationobject_name |-> "name", privatizationobject_type |-> "type",
          privatizationobject_isnotinplan |-> "isNotInPlan"],
     \* lines 876-879
     attachment |->
         [attachments_id |-> "id", attachments_name |-> "name", attachments_size |-> "size",
          attachments_hash |-> "hash"],
     \* lines 881-882
     attachmentType |->
         [attachments_attachmenttype_code |-> "code",
          attachments_attachmenttype_name |-> "name"],
     \* lines 887-888
     biddForm |->
         [biddforms_code |-> "code", biddforms_name |-> "name"],
     \* lines 901-906
     hostingOrg |->
         [hostingorg_code |-> "code", hostingorg_name |-> "name", hostingorg_inn |-> "INN",
          hostingorg_kpp |-> "KPP", hostingorg_ogrn |-> "OGRN",
          hostingorg_orgtype |-> "orgType"],
     \* lines 908-912
     planingPeriod |->
         [planingperiod |-> "planingPeriod", startyear |-> "startYear",
          endyear |-> "endYear", signingdate_plan |-> "signingDate",
          documentnumber |-> "documentNumber"],
     \* lines 914-915
     ownershipForms |->
         [ownershipforms_code |-> "code", ownershipforms_name |-> "name"],
     \* lines 917-919
     budget |->
         [budget_code |-> "code", budget_name |-> "name", budget_codeokfs |-> "codeOKFS"],
     \* lines 921-923
     privatizationPlan |->
         [privatizationplan_number |-> "number", privatizationplan_name |-> "name",
          privatizationplan_planingperiod |-> "planingPeriod"],
     \* lines 925-926
     subjectRF |->
         [subjectrf_code |-> "code", subjectrf_name |-> "name"],
     \* lines 930-932
     enterpriseData |->
         [reportdata_enterprisedata_plancount |-> "planCount",
          reportdata_enterprisedata_excludedcount |-> "excludedCount",
          reportdata_enterprisedata_factcount |-> "factCount"],
     \* lines 935-937
     companiesData |->
         [reportdata_companiesdata_plancount |-> "planCount",
          reportdata_companiesdata_excludedcount |-> "excludedCount",
          reportdata_companiesdata_tenderedcount |-> "tenderedCount"],
     \* lines 940-942
     companiesAuction |->
         [reportdata_companiesdata_auction_count |-> "count",
          reportdata_companiesdata_auction_startsum |-> "startSum",
          reportdata_companiesdata_auction_salesum |-> "saleSum"],
     \* lines 945-947
     companiesPublicOffer |->
         [reportdata_companiesdata_publicoffer_count |-> "count",
          reportdata_companiesdata_publicoffer_startsum |-> "startSum",
          reportdata_companiesdata_publicoffer_salesum |-> "saleSum"],
     \* lines 950-952
     companiesCompetition |->
         [reportdata_companiesdata_competition_count |-> "count",
          reportdata_companiesdata_competition_startsum |-> "startSum",
          reportdata_companiesdata_competition_salesum |-> "saleSum"],
     \* lines 955-956
     otherPropertyData |->
         [reportdata_otherpropertydata_plancount |-> "planCount",
          reportdata_otherpropertydata_tenderedcount |-> "tenderedCount"],
     \* lines 959-961
     otherAuction |->
         [reportdata_otherpropertydata_auction_count |-> "count",
          reportdata_otherpropertydata_auction_startsum |-> "startSum",
          reportdata_otherpropertydata_auction_salesum |-> "saleSum"],
     \* lines 964-966
     otherPublicOffer |->
         [reportdata_otherpropertydata_publicoffer_count |-> "count",
          reportdata_otherpropertydata_publicoffer_startsum |-> "startSum",
          reportdata_otherpropertydata_publicoffer_salesum |-> "saleSum"],
     \* lines 969-971
     otherCompetition |->
         [reportdata_otherpropertydata_competition_count |-> "count",
          reportdata_otherpropertydata_competition_startsum |-> "startSum",
          reportdata_otherpropertydata_competition_salesum |-> "saleSum"],
     \* lines 974-982
     revenuesData |->
         [reportdata_revenuesdata_planrevenues |-> "planRevenues",
          reportdata_revenuesdata_planbudgetdeficitfinancingsum |-> "planBudgetDeficitFinancingSum",
          reportdata_revenuesdata_factbudgetdeficitfinancingtotalsum |-> "factBudgetDeficitFinancingTotalSum",
          reportdata_revenuesdata_factbudgetdeficitfinancingthisyearsum |-> "factBudgetDeficitFinancingThisYearSum",
          reportdata_revenuesdata_factbudgetdeficitfinancinglastyearsum |-> "factBudgetDeficitFinancingLastYearSum",
          reportdata_revenuesdata_plannontaxrevenuesum |-> "planNonTaxRevenueSum",
          reportdata_revenuesdata_factnontaxrevenuetotalsum |-> "factNonTaxRevenueTotalSum",
          reportdata_revenuesdata_factnontaxrevenuethisyeartotalsum |-> "factNonTaxRevenueThisYearTotalSum",
          reportdata_revenuesdata_factnontaxrevenuelastyeartotalsum |-> "factNonTaxRevenueLastYearTotalSum"],
     \* lines 992-993
     purpose |->
         [purpose_code |-> "code", purpose_name |-> "name"]]

\* What one branch does: it raises, or it assigns `set` to flat_data.
Writes(raised, set) == [raised |-> raised, set |-> set]
Skip == Writes(FALSE, <<>>)
Raise == Writes(TRUE, <<>>)

\* flat_data[c] = obj.get(cols[c]) for every c
Project(obj, cols) == [c \in DOMAIN cols |-> Get(obj, cols[c])]
Assign(obj, cols) == Writes(FALSE, Project(obj, cols))

\* flat_data[c] = value.get(key, {}).get(cols[c]): AttributeError when the key is
\* present and its value is not a dict (None, a string, a list).
Nested(value, key, cols) ==
    IF key \in DOMAIN value.v /\ ~IsObj(value.v[key]) THEN Raise
    ELSE Assign(GetOr(value, key, EmptyObj), cols)

\* Two branches in sequence: the later assignment wins.
Then(a, b) == Writes(a.raised \/ b.raised, b.set @@ a.set)

RECURSIVE All(_)
All(ws) == IF ws = <<>> THEN Skip ELSE Then(Head(ws), All(Tail(ws)))

\* attachment = attachments[0] and its attachmentType, when attachments is truthy
FirstAttachment(attachments) ==
    IF ~Truthy(attachments) THEN Skip
    ELSE IF ~IsArr(attachments) THEN Raise
    ELSE IF ~IsObj(attachments.v[1]) THEN Raise
    ELSE Then(Assign(attachments.v[1], FlatCols.attachment),
              Nested(attachments.v[1], "attachmentType", FlatCols.attachmentType))

\* bid_form = bidd_forms[0], when bidd_forms is truthy
FirstBiddForm(bidd_forms) ==
    IF ~Truthy(bidd_forms) THEN Skip
    ELSE IF ~IsArr(bidd_forms) THEN Raise
    ELSE IF ~IsObj(bidd_forms.v[1]) THEN Raise
    ELSE Assign(bidd_forms.v[1], FlatCols.biddForm)

\* key == "commonInfo", value a dict
CommonInfo(document_type, doc_data, value) ==
    CASE document_type = "planCancel" ->
            All(<<Assign(value, FlatCols.cancelCommon),
                  Nested(value, "timeZone", FlatCols.timeZone),
                  Nested(value, "signedData", FlatCols.signedData)>>)
      [] document_type = "planReport" ->
            All(<<Assign(value, FlatCols.reportCommon),
                  Nested(value, "timeZone", FlatCols.timeZone),
                  Nested(value, "signedData", FlatCols.signedData)>>)
      [] document_type = "privatizationDecision" ->
            All(<<Assign(doc_data, FlatCols.decisionTop),
                  Assign(value, FlatCols.decisionCommon),
                  Nested(value, "timeZone", FlatCols.timeZone),
                  Nested(doc_data, "hostingOrg", FlatCols.decisionHostingOrg),
                  Nested(doc_data, "bidderOrg", FlatCols.bidderOrg),
                  Nested(doc_data, "stockInfo", FlatCols.stockInfo),
                  Nested(doc_data, "privatizationObject", FlatCols.privatizationObject),
                  Nested(value, "signedData", FlatCols.signedData),
                  FirstAttachment(GetOr(doc_data, "attachments", EmptyArr)),
                  FirstBiddForm(GetOr(doc_data, "biddForms", EmptyArr))>>)
      [] OTHER ->
            All(<<Assign(value, FlatCols.planCommon),
                  Nested(value, "timeZone", FlatCols.timeZone),
                  Nested(value, "signedData", FlatCols.signedData)>>)

\* key == "reportData", value a dict
ReportData(value) ==
    LET companies == GetOr(value, "companiesData", EmptyObj)
        other == GetOr(value, "otherPropertyData", EmptyObj)
    IN  All(<<Nested(value, "enterpriseData", FlatCols.enterpriseData),
              Nested(value, "companiesData", FlatCols.companiesData),
              IF ~IsObj(companies) THEN Raise
              ELSE All(<<Nested(companies, "auction", FlatCols.companiesAuction),
                         Nested(companies, "publicOffer", FlatCols.companiesPublicOffer),
                         Nested(companies, "competition", FlatCols.companiesCompetition)>>),
              Nested(value, "otherPropertyData", FlatCols.otherPropertyData),
              IF ~IsObj(other) THEN Raise
              ELSE All(<<Nested(other, "auction", FlatCols.otherAuction),
                         Nested(other, "publicOffer", FlatCols.otherPublicOffer),
                         Nested(other, "competition", FlatCols.otherCompetition)>>),
              Nested(value, "revenuesData", FlatCols.revenuesData)>>)

\* isinstance(value, dict)
DictKey(document_type, doc_data, key, value) ==
    LET notDecision == document_type # "privatizationDecision"
    IN  CASE key = "commonInfo" -> CommonInfo(document_type, doc_data, value)
          [] key = "hostingOrg" /\ notDecision -> Assign(value, FlatCols.hostingOrg)
          [] key = "planingPeriodInfo" -> Assign(value, FlatCols.planingPeriod)
          [] key = "ownershipForms" -> Assign(value, FlatCols.ownershipForms)
          [] key = "budget" -> Assign(value, FlatCols.budget)
          [] key = "privatizationPlan" -> Assign(value, FlatCols.privatizationPlan)
          [] key = "subjectRF" -> Assign(value, FlatCols.subjectRF)
          [] key = "reportData" -> ReportData(value)
          [] key = "privatizationObject" /\ notDecision ->
                Assign(value, FlatCols.privatizationObject)
          [] key = "stockInfo" /\ notDecision -> Assign(value, FlatCols.stockInfo)
          [] key = "purpose" /\ notDecision -> Assign(value, FlatCols.purpose)
          [] key = "attachmentType" /\ notDecision -> Assign(value, FlatCols.attachmentType)
          [] OTHER -> Skip

\* isinstance(value, list)
ListKey(document_type, key, value) ==
    LET notDecision == document_type # "privatizationDecision"
    IN  CASE key = "attachments" /\ notDecision -> FirstAttachment(value)
          [] key = "biddForms" /\ notDecision -> FirstBiddForm(value)
          [] OTHER -> Skip

\* flat_data[column] = value
Put(column, value) == Writes(FALSE, column :> value)

\* neither a dict nor a list: a scalar or None.  value.get raises on both.
ScalarKey(document_type, key, value) ==
    LET notDecision == document_type # "privatizationDecision"
    IN  CASE key = "schemeVersion" /\ notDecision -> Put("schemeversion", value)
          [] key = "id" /\ notDecision -> Put("id_field", value)
          [] key = "version" -> Put("version", value)
          [] key = "decisionNumber" /\ notDecision -> Put("decisionnumber", value)
          [] key = "publishDate" /\ document_type = "privatizationPlan" ->
                Put("publishdate", value)
          [] key = "cancellationDate" -> Put("cancellationdate", value)
          [] key = "reason" -> Put("reason", value)
          [] key = "decisionDate" -> Put("decisiondate", value)
          [] key = "decisionNumber" -> Put("decisionnumber", value)
          [] key = "rootId" -> Put("rootid", value)
          [] key = "signingDate" -> Put("signingdate", value)
          [] key = "year" -> Put("year", value)
          [] key = "timeZone" /\ notDecision -> Raise
          [] key = "bidderOrg" /\ notDecision -> Raise
          [] key = "privatizationReason" /\ notDecision ->
                Put("privatizationreason", value)
          [] key = "startPrice" /\ notDecision -> Put("startprice", value)
          [] key = "authority" -> Put("authority", value)
          [] key = "budgetRevenueForecast" -> Raise
          [] OTHER -> Skip

\* One iteration of "for key, value in doc_data.items()".
FlattenKey(document_type, doc_data, key) ==
    LET value == doc_data.v[key]
    IN  IF IsObj(value) THEN DictKey(document_type, doc_data, key, value)
        ELSE IF IsArr(value) THEN ListKey(document_type, key, value)
        ELSE ScalarKey(document_type, key, value)

RECURSIVE SomeOrder(_)
SomeOrder(keys) ==
    IF keys = {} THEN <<>>
    ELSE LET k == CHOOSE x \in keys : TRUE IN <<k>> \o SomeOrder(keys \ {k})

\* doc_data.items(): the keys in insertion order
KeysOf(doc_data) ==
    IF "order" \in DOMAIN doc_data THEN doc_data.order ELSE SomeOrder(DOMAIN doc_data.v)

RECURSIVE FlattenFrom(_, _, _, _)
FlattenFrom(document_type, doc_data, keys, flat) ==
    IF keys = <<>> THEN [raised |-> FALSE, flat |-> flat]
    ELSE LET w == FlattenKey(document_type, doc_data, Head(keys))
         IN  IF w.raised THEN [raised |-> TRUE, flat |-> flat]
             ELSE FlattenFrom(document_type, doc_data, Tail(keys), w.set @@ flat)

\* flat_data of process_document_file for a truthy doc_data.  doc_data.items()
\* raises when doc_data is not a dict.
Flatten(document_type, doc_data, privatizationplansdetail_id) ==
    LET start == IF privatizationplansdetail_id # JNull
                 THEN "privatizationplansdetail_id" :> privatizationplansdetail_id
                 ELSE <<>>
    IN  IF ~IsObj(doc_data) THEN [raised |-> TRUE, flat |-> start]
        ELSE FlattenFrom(document_type, doc_data, KeysOf(doc_data), start)

(***************************************************************************)
(* insert_privatization_object and the rest of process_document_file.      *)
(* Rows of privatizationobjects carry id, privatizationplan_id and the     *)
(* columns below; rows of the document tables carry table, id and the      *)
(* columns that flat_data names (the others are NULL).                     *)
(***************************************************************************)
ObjectTopCols ==
    [objectnumber |-> "objectNumber", statusobject |-> "statusObject", name |-> "name",
     type |-> "type", timing |-> "timing", location |-> "location",
     kadnumber |-> "kadNumber"]

\* What psycopg2 can pass as a parameter here: None or a scalar.
IsScalar(x) == x.t \in {"null", "s", "id"}

\* The parameter tuple of insert_privatization_object; building it raises when
\* obj or one of its sub-objects is not what .get / [0] needs.
ObjectParams(obj) ==
    IF ~IsObj(obj) THEN Raise
    ELSE LET attachments == GetOr(obj, "attachments", EmptyArr)
         IN  All(<<Assign(obj, ObjectTopCols),
                   Nested(obj, "stockInfo", FlatCols.stockInfo),
                   Nested(obj, "purpose", FlatCols.purpose),
                   Nested(obj, "subjectRF", FlatCols.subjectRF),
                   IF Truthy(attachments)
                   THEN FirstAttachment(attachments)
                   ELSE Assign(EmptyObj, FlatCols.attachment @@ FlatCols.attachmentType)>>)

\* A mutant of UpsertObject: ON CONFLICT (objectnumber) DO NOTHING.
UpsertObjectDoNothing(rows, privatizationplansdetail_id, params) ==
    LET hit == {r \in rows : params.objectnumber # JNull
                             /\ r.objectnumber = params.objectnumber}
    IN  IF hit = {}
        THEN rows \cup {params @@ [id |-> NextId(rows),
                                   privatizationplan_id |-> privatizationplansdetail_id,
                                   created_at |-> runNo]}
        ELSE rows

\* INSERT INTO privatizationobjects ... ON CONFLICT (objectnumber) DO UPDATE SET
\* every column but id, objectnumber and created_at (DEFAULT CURRENT_TIMESTAMP,
\* the run number).  A NULL objectnumber conflicts with nothing.
UpsertObject(rows, privatizationplansdetail_id, params) ==
    LET hit == {r \in rows : params.objectnumber # JNull
                             /\ r.objectnumber = params.objectnumber}
        row(id, created_at) ==
            params @@ [id |-> id, privatizationplan_id |-> privatizationplansdetail_id,
                       created_at |-> created_at]
    IN  IF hit = {} THEN rows \cup {row(NextId(rows), runNo)}
        ELSE {IF r \in hit THEN row(r.id, r.created_at) ELSE r : r \in rows}

\* insert_privatization_object: the table after it, or raised.
InsertPrivatizationObject(rows, privatizationplansdetail_id, obj) ==
    LET p == ObjectParams(obj)
    IN  IF p.raised \/ \E c \in DOMAIN p.set : ~IsScalar(p.set[c])
        THEN [raised |-> TRUE, rows |-> rows]
        ELSE [raised |-> FALSE,
              rows |-> UpsertObject(rows, privatizationplansdetail_id, p.set)]

\* "for obj in priv_objects: insert_privatization_object(cursor, id, obj)".
\* calls lists the invocations made, in order, with their arguments.
RECURSIVE InsertObjects(_, _, _)
InsertObjects(rows, privatizationplansdetail_id, list) ==
    IF list = <<>> THEN [raised |-> FALSE, rows |-> rows, calls |-> <<>>]
    ELSE LET r == InsertPrivatizationObject(rows, privatizationplansdetail_id, Head(list))
             call == [privatizationplansdetail_id |-> privatizationplansdetail_id,
                      obj |-> Head(list)]
         IN  IF r.raised THEN [raised |-> TRUE, rows |-> rows, calls |-> <<call>>]
             ELSE LET next == InsertObjects(r.rows, privatizationplansdetail_id,
                                            Tail(list))
                  IN  [next EXCEPT !.calls = <<call>> \o @]

\* "for obj in priv_objects" when the type is privatizationPlan and the key is
\* there: a list is walked; None is not iterable; a non-empty text or dict
\* yields texts, on which .get raises; an empty one yields nothing.
\* A mutant of PrivatizationObjects: the test of the document type is lost.
PrivatizationObjectsOfAnyType(rows, document_type, doc_data, privatizationplansdetail_id) ==
    IF "privatizationObjects" \notin DOMAIN doc_data.v
       \/ ~IsArr(doc_data.v["privatizationObjects"])
    THEN [raised |-> FALSE, rows |-> rows, calls |-> <<>>]
    ELSE InsertObjects(rows, privatizationplansdetail_id,
                       doc_data.v["privatizationObjects"].v)

PrivatizationObjects(rows, document_type, doc_data, privatizationplansdetail_id) ==
    IF document_type # "privatizationPlan" \/ "privatizationObjects" \notin DOMAIN doc_data.v
    THEN [raised |-> FALSE, rows |-> rows, calls |-> <<>>]
    ELSE LET priv_objects == doc_data.v["privatizationObjects"]
         IN  IF IsArr(priv_objects)
             THEN InsertObjects(rows, privatizationplansdetail_id, priv_objects.v)
             ELSE [raised |-> priv_objects = JNull \/ Truthy(priv_objects), rows |-> rows,
                   calls |-> <<>>]

\* INSERT INTO <table_name> (flat_data.keys()) VALUES (...): it fails on a key
\* that is no column, on a value that is no scalar, on an id_field already there.
InsertFails(rows, table_name, flat) ==
    \/ ~(DOMAIN flat \subseteq ColumnsOf(table_name))
    \/ \E c \in DOMAIN flat : ~IsScalar(flat[c])
    \/ /\ "id_field" \in DOMAIN flat
       /\ flat["id_field"] # JNull
       /\ \E r \in rows : /\ r.table = table_name
                          /\ "id_field" \in DOMAIN r.flat
                          /\ r.flat["id_field"] = flat["id_field"]

DocRow(rows, table_name, flat) ==
    [table |-> table_name, id |-> NextId({r \in rows : r.table = table_name}),
     flat |-> flat]

\* What a file holds: a JSON value, or bytes that json.load rejects.
NotJson == [t |-> "bytes"]
\* A response of which only a part reaches the file: open(filepath, 'wb') has
\* created the file and f.write fails part-way.  Also what the file then holds:
\* a proper prefix of a JSON text, which json.load rejects.
Truncated == [t |-> "cut"]

\* A mutant of StructuredObject: data["exportObject"]["structuredObject"],
\* which raises on a missing key.
StructuredObjectByIndex(data) ==
    IF ~IsObj(data) \/ "exportObject" \notin DOMAIN data.v THEN [raised |-> TRUE]
    ELSE IF ~IsObj(data.v["exportObject"])
            \/ "structuredObject" \notin DOMAIN data.v["exportObject"].v
    THEN [raised |-> TRUE]
    ELSE [raised |-> FALSE, value |-> data.v["exportObject"].v["structuredObject"]]

\* data.get("exportObject", {}).get("structuredObject", {})
StructuredObject(data) ==
    IF ~IsObj(data) THEN [raised |-> TRUE]
    ELSE IF "exportObject" \in DOMAIN data.v /\ ~IsObj(data.v["exportObject"])
    THEN [raised |-> TRUE]
    ELSE [raised |-> FALSE,
          value |-> GetOr(GetOr(data, "exportObject", EmptyObj), "structuredObject",
                          EmptyObj)]

\* process_document_file on a connection whose transaction has no writes yet:
\* ret is "true", "false" or "raise"; objects and docrows are the committed
\* tables afterwards; calls are the invocations of insert_privatization_object.  With flat_data empty (no detail id, no known key) the
\* function returns False with the object rows neither committed nor rolled
\* back; they are lost when the connection closes.
ProcessDocument(content, document_type, privatizationplansdetail_id, objs, rows) ==
    LET done(ret, calls) ==
            [ret |-> ret, objects |-> objs, docrows |-> rows, calls |-> calls]
        same(ret) == done(ret, <<>>)
        so == StructuredObject(content)
    IN  IF content \in {NotJson, Truncated} THEN same("false")
        ELSE IF so.raised THEN same("raise")
        ELSE IF ~Truthy(so.value) THEN same("false")
        ELSE IF ~IsObj(so.value) THEN same("raise")
        ELSE IF document_type \notin DocumentTypes THEN same("false")
        ELSE LET doc_data == GetOr(so.value, document_type, EmptyObj)
                 f == Flatten(document_type, doc_data, privatizationplansdetail_id)
                 o == PrivatizationObjects(objs, document_type, doc_data,
                                           privatizationplansdetail_id)
                 table_name == TableOf(document_type)
             IN  IF ~Truthy(doc_data) THEN same("false")
                 ELSE IF f.raised THEN same("raise")
                 ELSE IF o.raised THEN done("raise", o.calls)
                 ELSE IF DOMAIN f.flat = {} THEN done("false", o.calls)
                 ELSE IF InsertFails(rows, table_name, f.flat) THEN done("false", o.calls)
                 ELSE [ret |-> "true", objects |-> o.rows,
                       docrows |-> rows \cup {DocRow(rows, table_name, f.flat)},
                       calls |-> o.calls]

(***************************************************************************)
(* The category table of --metaupdate.  A catalog identifier is a sequence *)
(* of characters; the table name is derived from it.                       *)
(***************************************************************************)
\* category_name.replace("-", "_").lower(), then cut to the first letter a-z
\* when the name starts with a digit or an underscore.
TableName(category_name) ==
    LET UpperCase == <<"A", "B", "C", "D", "E", "F", "G", "H", "I", "J", "K", "L", "M",
                       "N", "O", "P", "Q", "R", "S", "T", "U", "V", "W", "X", "Y", "Z">>
        LowerCase == <<"a", "b", "c", "d", "e", "f", "g", "h", "i", "j", "k", "l", "m",
                       "n", "o", "p", "q", "r", "s", "t", "u", "v", "w", "x", "y", "z">>
        IsDigit(c) == \E i \in 1..Len(Digits) : Digits[i] = c
        IsLowerLetter(c) == \E i \in 1..Len(LowerCase) : LowerCase[i] = c
        Lower(c) ==
            IF \E i \in 1..Len(UpperCase) : UpperCase[i] = c
            THEN LowerCase[CHOOSE i \in 1..Len(UpperCase) : UpperCase[i] = c]
            ELSE c
        t == [i \in 1..Len(category_name) |->
                 Lower(IF category_name[i] = "-" THEN "_" ELSE category_name[i])]
        letters == {i \in 1..Len(t) : IsLowerLetter(t[i])}
    IN  IF Len(t) > 0 /\ (IsDigit(t[1]) \/ t[1] = "_") /\ letters # {}
        THEN SubSeq(t, CHOOSE i \in letters : \A j \in letters : i <= j, Len(t))
        ELSE t

\* The same derivation as parse_and_save_category_data writes it (lines 190-195).
SaveTableName(category_name) ==
    LET UpperCase == <<"A", "B", "C", "D", "E", "F", "G", "H", "I", "J", "K", "L", "M",
                       "N", "O", "P", "Q", "R", "S", "T", "U", "V", "W", "X", "Y", "Z">>
        LowerCase == <<"a", "b", "c", "d", "e", "f", "g", "h", "i", "j", "k", "l", "m",
                       "n", "o", "p", "q", "r", "s", "t", "u", "v", "w", "x", "y", "z">>
        IsDigit(c) == \E i \in 1..Len(Digits) : Digits[i] = c
        IsLowerLetter(c) == \E i \in 1..Len(LowerCase) : LowerCase[i] = c
        Lower(c) ==
            IF \E i \in 1..Len(UpperCase) : UpperCase[i] = c
            THEN LowerCase[CHOOSE i \in 1..Len(UpperCase) : UpperCase[i] = c]
            ELSE c
        t == [i \in 1..Len(category_name) |->
                 Lower(IF category_name[i] = "-" THEN "_" ELSE category_name[i])]
        letters == {i \in 1..Len(t) : IsLowerLetter(t[i])}
    IN  IF Len(t) > 0 /\ (IsDigit(t[1]) \/ t[1] = "_") /\ letters # {}
        THEN SubSeq(t, CHOOSE i \in letters : \A j \in letters : i <= j, Len(t))
        ELSE t

\* "7710568760-privatizationPlans", the identifier of the privatization plans
PlansIdentifier ==
    <<"7", "7", "1", "0", "5", "6", "8", "7", "6", "0", "-", "p", "r", "i", "v", "a",
      "t", "i", "z", "a", "t", "i", "o", "n", "P", "l", "a", "n", "s">>
PlansTable ==
    <<"p", "r", "i", "v", "a", "t", "i", "z", "a", "t", "i", "o", "n", "p", "l", "a",
      "n", "s">>

\* INSERT ... ON CONFLICT (source) DO UPDATE SET ... created_at = CURRENT_TIMESTAMP
UpsertPlan(rows, row) ==
    IF PlanBySource(rows, row.source) = {}
    THEN rows \cup {row}
    ELSE {IF r.source = row.source THEN [row EXCEPT !.id = r.id] ELSE r : r \in rows}

\* The loop of parse_and_save_category_data over meta["data"] on privatizationplans.
RECURSIVE ParseAndSave(_, _, _, _, _)
ParseAndSave(rows, sch, data_list, now, inserted) ==
    IF data_list = <<>> THEN [rows |-> rows, end |-> "done", inserted |-> inserted]
    ELSE LET item == Head(data_list)
         IN  IF PlanBySource(rows, item.source) # {}
             THEN ParseAndSave(rows, sch, Tail(data_list), now, inserted)
             ELSE IF ~({"source", "created", "provenance", "valid", "structure",
                        "date_range_start", "date_range_end"}
                           \subseteq PlansColumns(sch.plans))
                  THEN [rows |-> rows, end |-> "dberror", inserted |-> inserted]
             ELSE ParseAndSave(
                      UpsertPlan(rows, PlanRow(NextId(rows), item.source,
                                               JS(item.created), JS(item.provenance),
                                               JS(item.valid), JS(item.structure), now)),
                      sch, Tail(data_list), now, inserted + 1)

(***************************************************************************)
(* Spec, first part: --metaupdate and --privatizationplans.                *)
(***************************************************************************)
Idle == run.mode = "idle" /\ runNo < MaxRuns

\* main() with --metaupdate, for the privatization plans category.
MetaUpdate(manifest) ==
    /\ Idle
    /\ TableName(PlansIdentifier) = PlansTable
    /\ LET sch == CreateCategoryTable(schema)
           r == ParseAndSave(plans, sch, manifest, runNo + 1, 0)
       IN  /\ schema' = sch
           /\ plans' = IF r.end = "done" THEN r.rows ELSE plans
           /\ last' = [op |-> "meta", manifest |-> manifest,
                       ret |-> IF r.end = "done" THEN "done" ELSE "crash",
                       inserted |-> r.inserted]
           /\ run' = [NoRun EXCEPT !.opened = 1,
                                   !.closed = IF r.end = "done" THEN 1 ELSE 0]
    /\ runNo' = runNo + 1
    /\ UNCHANGED <<details, objects, docrows, files, fetches>>
    /\ UNCHANGED <<selVars, flatVars>>

\* fetch_privatization_plans_data up to the loop: the manifest is fetched (or
\* not), the items are selected, the connection is opened, the tables created.
StartData(meta, today, days) ==
    /\ Idle
    /\ runNo' = runNo + 1
    /\ LET found == IF meta = NetFail THEN <<>>
                    ELSE FoundItems(meta.data, DatesToFetch(today, days))
       IN  IF found = <<>>
           THEN /\ last' = [op |-> "data", ret |-> "nothing"]
                /\ run' = NoRun
                /\ UNCHANGED schema
           ELSE /\ schema' = CreatePrivatizationTables(schema)
                /\ run' = [mode |-> "data", queue |-> found, loaded |-> 0,
                           opened |-> 1, closed |-> 0,
                           tx |-> [state |-> "open", plans |-> plans,
                                   details |-> details]]
                /\ last' = [op |-> "data", ret |-> "started"]
    /\ UNCHANGED <<plans, details, objects, docrows, files, fetches>>
    /\ UNCHANGED <<selVars, flatVars>>

\* A mutant of Downloaded: the status of the response is not looked at.
DownloadedAnyway(answer) == TRUE

\* requests.get(source, timeout=60) and response.raise_for_status() passed.
Downloaded(answer) == answer # NetFail

\* One iteration of the loop of fetch_privatization_plans_data: the download
\* answers `payload`, and save_privatization_data_to_db stores it.
DataItem(payload) ==
    /\ run.mode = "data"
    /\ run.queue # <<>>
    /\ payload \in SnapshotAnswers(Head(run.queue).source)
    /\ LET item == Head(run.queue)
       IN  IF ~Downloaded(payload)
           THEN /\ run' = [run EXCEPT !.queue = Tail(run.queue)]
                /\ last' = [op |-> "save", source |-> item.source, ret |-> "netfail",
                            item |-> item, payload |-> payload,
                            before |-> {d.id : d \in run.tx.details}]
                /\ UNCHANGED <<plans, details>>
           ELSE LET r == SavePrivatizationData(run.tx, item, payload, runNo)
                IN  /\ run' = [run EXCEPT !.queue = Tail(run.queue), !.tx = r.tx,
                                          !.loaded = IF r.commit THEN @ + 1 ELSE @]
                    /\ plans' = IF r.commit THEN r.tx.plans ELSE plans
                    /\ details' = IF r.commit THEN r.tx.details ELSE details
                    /\ last' = [op |-> "save", source |-> item.source, ret |-> r.end,
                                item |-> item, payload |-> payload,
                                before |-> {d.id : d \in run.tx.details}]
    /\ UNCHANGED <<schema, objects, docrows, files, runNo, fetches>>
    /\ UNCHANGED <<selVars, flatVars>>

\* conn.close() after the loop: what the transaction has not committed is lost.
EndData ==
    /\ run.mode = "data"
    /\ run.queue = <<>>
    /\ run' = [NoRun EXCEPT !.opened = run.opened, !.closed = run.closed + 1]
    /\ last' = [op |-> "data", ret |-> "closed", loaded |-> run.loaded]
    /\ UNCHANGED <<schema, plans, details, objects, docrows, files, runNo, fetches>>
    /\ UNCHANGED <<selVars, flatVars>>

(***************************************************************************)
(* Spec, second part: --privatizationplansdocs.                            *)
(***************************************************************************)
\* Document files.  A privatization object of a plan:
PrivObject(objectNumber, name) ==
    JO([objectNumber |-> JS(objectNumber), name |-> JS(name)])

File(document_type, doc_data) ==
    JO([exportObject |-> JO([structuredObject |-> JO(document_type :> doc_data)])])

\* A plan without id, with an object X1 and an object without number.
PlanNoId ==
    Doc(<<"commonInfo", "privatizationObjects">>,
        [commonInfo |-> JO([planNumber |-> JS("N1"), name |-> JS("Plan")]),
         privatizationObjects |->
             JA(<<PrivObject("X1", "Lot"), JO([name |-> JS("Unnumbered")])>>)])

\* A plan with id P2 that names object X1 "Lot2".
PlanP2 ==
    Doc(<<"id", "privatizationObjects">>,
        [id |-> JS("P2"),
         privatizationObjects |-> JA(<<PrivObject("X1", "Lot2")>>)])

\* A decision with id D1 and no commonInfo, which lists an object as a plan
\* would.
DecisionD1 ==
    Doc(<<"id", "decisionNumber", "privatizationObjects">>,
        [id |-> JS("D1"), decisionNumber |-> JS("N1"),
         privatizationObjects |-> JA(<<PrivObject("X9", "Stray")>>)])

\* A plan whose commonInfo.timeZone is null.
PlanNullTimeZone ==
    Doc(<<"commonInfo">>, [commonInfo |-> JO([name |-> JS("Plan"), timeZone |-> JNull])])

\* A decision of which the flattener knows no key.
DecisionUnknown == Doc(<<"unknownKey">>, [unknownKey |-> JS("text")])

\* A file without exportObject.structuredObject.
NoStructure == JO([exportObject |-> EmptyObj])

\* What GET <href> answers in Spec.
DocumentAnswers(href) ==
    CASE href = H1 -> {File("privatizationPlan", PlanNoId), NoStructure, NetFail,
                       Truncated}
      [] href = H2 -> {File("privatizationPlan", PlanP2),
                       File("privatizationPlan", PlanNullTimeZone), NetFail, Truncated}
      [] OTHER -> {File("privatizationDecision", DecisionD1),
                   File("privatizationDecision", DecisionUnknown), NotJson, NetFail,
                   Truncated}
Documents ==
    {File("privatizationPlan", PlanNoId), File("privatizationPlan", PlanP2),
     File("privatizationPlan", PlanNullTimeZone),
     File("privatizationDecision", DecisionD1),
     File("privatizationDecision", DecisionUnknown), NoStructure, NotJson, NetFail,
     Truncated}

\* A mutant of FileName: the cache is keyed by the directory of the href.
FileNameOfDirectory(href) == IF Len(href) < 2 THEN "" ELSE href[Len(href) - 1]

\* href.split('/')[-1]
FileName(href) == IF href = <<>> THEN "" ELSE href[Len(href)]

\* A mutant of CacheHit: the existence check is lost.
CacheNeverHit(fs, filename) == FALSE

\* os.path.exists(filepath)
CacheHit(fs, filename) == filename \in DOMAIN fs

DetailId(id) == [t |-> "id", v |-> id]

\* fetch_privatization_plans_docs up to the loop.  create_document_tables
\* references privatizationplansdetail, which has to exist.
StartDocs ==
    /\ Idle
    /\ runNo' = runNo + 1
    /\ IF ~schema.detail
       THEN /\ last' = [op |-> "docs", ret |-> "crash"]
            /\ run' = [NoRun EXCEPT !.opened = 1]
            /\ UNCHANGED schema
       ELSE /\ schema' = [schema EXCEPT !.docs = TRUE]
            /\ run' = [mode |-> "docs", queue |-> SortById(details), processed |-> 0,
                       opened |-> 1, closed |-> 0]
            /\ last' = [op |-> "docs", ret |-> "started"]
    /\ UNCHANGED <<plans, details, objects, docrows, files, fetches>>
    /\ UNCHANGED <<selVars, flatVars>>

\* A mutant of FetchAndSaveDocumentFile: the body of a failed request is
\* saved like a document.
FetchAndSaveAnyAnswer(answer) == [path |-> TRUE, written |-> TRUE, content |-> NotJson]

\* fetch_and_save_document_file: the path, or None when the request or the
\* write failed; whether the file was created, and what it then holds.
FetchAndSaveDocumentFile(answer) ==
    IF answer = NetFail THEN [path |-> FALSE, written |-> FALSE]
    ELSE IF answer = Truncated
    THEN [path |-> FALSE, written |-> TRUE, content |-> Truncated]
    ELSE [path |-> TRUE, written |-> TRUE, content |-> answer]

\* One iteration of the loop of fetch_privatization_plans_docs: the file is
\* found or downloaded (the server answers `answer`), then processed.  An
\* exception ends the run; nothing of the iteration is committed.  `last`
\* notes what happened: whether the file existed, whether a request was sent.
DocItem(answer) ==
    /\ run.mode = "docs"
    /\ run.queue # <<>>
    /\ LET record == Head(run.queue)
           rest == Tail(run.queue)
           done(existed, net, ret, calls) ==
               [op |-> "doc", id |-> record.id, href |-> record.href,
                existed |-> existed, net |-> net, failed |-> net /\ answer = NetFail,
                ret |-> ret, rest |-> rest, calls |-> calls]
       IN  IF record.href = JNull
           THEN /\ answer = NetFail
                /\ run' = [NoRun EXCEPT !.opened = run.opened, !.closed = run.closed]
                /\ last' = done(FALSE, FALSE, "crash", <<>>)
                /\ UNCHANGED <<objects, docrows, files, fetches>>
           ELSE LET href == record.href.v
                    filename == FileName(href)
                    existed == filename \in DOMAIN files
                    cached == CacheHit(files, filename)
                    got == IF cached
                           THEN [path |-> TRUE, written |-> FALSE,
                                 content |-> files[filename]]
                           ELSE FetchAndSaveDocumentFile(answer)
                IN  /\ answer \in DocumentAnswers(href)
                    /\ files' = IF ~got.written THEN files
                                ELSE (filename :> got.content) @@ files
                    /\ fetches' =
                          IF cached THEN fetches
                          ELSE [fetches EXCEPT
                                  ![href].requests = @ + 1,
                                  ![href].stored = IF got.path THEN @ + 1 ELSE @]
                    /\ IF ~got.path
                       THEN /\ run' = [run EXCEPT !.queue = rest]
                            /\ last' = done(existed, TRUE, "skip", <<>>)
                            /\ UNCHANGED <<objects, docrows>>
                       ELSE LET r == ProcessDocument(got.content, record.documentType.v,
                                                     DetailId(record.id), objects,
                                                     docrows)
                            IN  /\ objects' = r.objects
                                /\ docrows' = r.docrows
                                /\ run' = IF r.ret = "raise"
                                          THEN [NoRun EXCEPT !.opened = run.opened,
                                                             !.closed = run.closed]
                                          ELSE [run EXCEPT
                                                  !.queue = rest,
                                                  !.processed =
                                                      IF r.ret = "true" THEN @ + 1
                                                      ELSE @]
                                /\ last' = done(existed, ~cached,
                                                IF r.ret = "raise" THEN "crash"
                                                ELSE r.ret, r.calls)
    /\ UNCHANGED <<schema, plans, details, runNo>>
    /\ UNCHANGED <<selVars, flatVars>>

\* conn.close() after the loop.
EndDocs ==
    /\ run.mode = "docs"
    /\ run.queue = <<>>
    /\ run' = [NoRun EXCEPT !.opened = run.opened, !.closed = run.closed + 1]
    /\ last' = [op |-> "docs", ret |-> "closed", processed |-> run.processed]
    /\ UNCHANGED <<schema, plans, details, objects, docrows, files, runNo, fetches>>
    /\ UNCHANGED <<selVars, flatVars>>

(***************************************************************************)
(* Placeholders of the other two specifications' variables.                *)
(***************************************************************************)
StoreInit ==
    /\ schema = [plans |-> "none", detail |-> FALSE, docs |-> FALSE]
    /\ plans = {}
    /\ details = {}
    /\ objects = {}
    /\ docrows = {}
    /\ files = <<>>
    /\ run = NoRun
    /\ runNo = 0
    /\ fetches = [h \in {H1, H2, H3} |-> [requests |-> 0, stored |-> 0]]
    /\ last = Nothing

FlatIdle ==
    /\ flatIn = Nothing
    /\ flatOut = Nothing

Init == StoreInit /\ selIn = Nothing /\ selOut = Nothing /\ FlatIdle

Next ==
    \/ \E m \in Manifests : MetaUpdate(m)
    \/ \E m \in MetaAnswers, today \in Todays, days \in 1..MaxDays :
          StartData(m, today, days)
    \/ \E p \in Payloads : DataItem(p)
    \/ EndData
    \/ StartDocs
    \/ \E a \in Documents : DocItem(a)
    \/ EndDocs

Spec == Init /\ [][Next]_vars

InitSel == SelInit /\ StoreInit /\ FlatIdle

SpecSel == InitSel /\ [][SelNext]_vars

(***************************************************************************)
(* SpecFlat: the flattener alone, on documents of every type whose keys    *)
(* are absent, null, a scalar, a list or an object.                        *)
(***************************************************************************)
\* Every order in which a JSON object can list the keys of `keys`.
Orders(keys) ==
    {order \in [1..Cardinality(keys) -> keys] : \A k \in keys : \E i \in DOMAIN order : order[i] = k}

\* The documents of SpecFlat:
\*  - one known key (or an unknown one) in every shape: null, a scalar, an
\*    empty object, an object, a list;
\*  - commonInfo with timeZone or signedData in every shape;
\*  - commonInfo and a top-level key that feed the same column, in both orders;
\*  - attachments / biddForms with several elements or none, alone and next to
\*    commonInfo or a top-level attachmentType;
\*  - the fixed sub-objects of the variants;
\*  - a document of which the flattener knows no key.
FlatDocs ==
    LET coded(c, n) == JO([code |-> JS(c), name |-> JS(n)])
        shapes == {JNull, JS("text"), EmptyObj, coded("c1", "n1"), JA(<<coded("c1", "n1")>>)}
        topKeys == {"commonInfo", "timeZone", "bidderOrg", "budgetRevenueForecast",
                    "hostingOrg", "attachments", "version", "unknownKey"}
        commonKeys == {"timeZone", "signedData"}
        commonFull == JO([name |-> JS("Plan"), planNumber |-> JS("n1"),
                          publishDate |-> JS("d1"), signingDate |-> JS("d1"),
                          decisionNumber |-> JS("n1")])
        commonBare == JO([name |-> JS("Plan")])
        rivals == [publishDate |-> JS("d2"), signingDate |-> JS("d2"),
                   decisionNumber |-> JS("n2"),
                   privatizationPlan |-> JO([number |-> JS("n2")])]
        att1 == JO([id |-> JS("a1"), name |-> JS("first.pdf"),
                    attachmentType |-> coded("c1", "n1")])
        att2 == JO([id |-> JS("a2"), name |-> JS("second.pdf")])
        bidd1 == coded("c1", "n1")
        bidd2 == coded("c2", "n2")
        org == JO([code |-> JS("c1"), name |-> JS("n1"), INN |-> JS("7700000000")])
    IN  {EmptyObj}
        \cup {Doc(<<k>>, k :> v) : k \in topKeys, v \in shapes}
        \cup {Doc(<<"commonInfo">>,
                  [commonInfo |-> JO((k :> v) @@ [name |-> JS("Plan")])]) :
                 k \in commonKeys, v \in shapes}
        \cup UNION {{Doc(order, (k :> rivals[k]) @@ [commonInfo |-> c]) :
                        order \in Orders({"commonInfo", k})} :
                    k \in DOMAIN rivals, c \in {commonFull, commonBare}}
        \cup UNION {{Doc(<<k>>, k :> JA(q)),
                     Doc(<<"commonInfo", k>>,
                         (k :> JA(q)) @@ [commonInfo |-> commonBare])} :
                    k \in {"attachments", "biddForms"},
                    q \in {<<>>, <<att1, att2>>, <<att2, att1>>, <<bidd1, bidd2>>}}
        \cup {Doc(<<"attachments", "attachmentType">>,
                  [attachments |-> JA(q), attachmentType |-> bidd2]) :
                 q \in {<<>>, <<att1, att2>>}}
        \cup {Doc(<<"hostingOrg">>, [hostingOrg |-> org]),
              Doc(<<"commonInfo", "hostingOrg">>,
                  [commonInfo |-> commonBare, hostingOrg |-> org]),
              Doc(<<"budgetRevenueForecast">>,
                  [budgetRevenueForecast |-> JO([sumFirstYear |-> JS("100")])]),
              Doc(<<"reportData">>,
                  [reportData |-> JO([enterpriseData |-> JO([planCount |-> JS("3")])])]),
              Doc(<<"commonInfo">>,
                  [commonInfo |-> JO([name |-> JS("Plan"),
                                      signedData |-> JO([id |-> JS("s1"),
                                                         hash |-> JS("h1")]),
                                      timeZone |-> bidd1])]),
              Doc(<<"unknownKey", "otherKey">>,
                  [unknownKey |-> JS("text"), otherKey |-> org])}

\* The input of the flattener, and the rest of the state at rest.
InitFlat ==
    /\ flatIn \in [document_type : DocumentTypes, doc_data : FlatDocs,
                   privatizationplansdetail_id : {JNull, DetailId(1)}]
    /\ flatOut = Nothing
    /\ StoreInit
    /\ selIn = Nothing
    /\ selOut = Nothing

\* The loop of process_document_file over doc_data.items().
FlattenDocument ==
    /\ flatOut = Nothing
    /\ LET f == Flatten(flatIn.document_type, flatIn.doc_data,
                        flatIn.privatizationplansdetail_id)
       IN  flatOut' = [op |-> "flatten", raised |-> f.raised, flat |-> f.flat]
    /\ UNCHANGED <<flatIn, selVars, storeVars>>

SpecFlat == InitFlat /\ [][FlattenDocument]_vars

(***************************************************************************)
(* SpecName: the table name of a category, derived from catalog identifiers *)
(* of up to MaxName characters: a digit, the hyphen, the underscore, an     *)
(* upper-case and a lower-case letter, and a character of no such kind.     *)
(***************************************************************************)
InitName ==
    /\ \E n \in 0..MaxName :
          \E identifier \in [1..n -> {"7", "-", "_", "P", "a", "#"}] :
             selIn = [op |-> "name", category_name |-> identifier]
    /\ selOut = Nothing
    /\ StoreInit
    /\ FlatIdle

\* create_category_table and then parse_and_save_category_data on the
\* identifier of one dataset (main, lines 1445 and 1449).
DeriveTableNames ==
    /\ selIn.op = "name"
    /\ selOut = Nothing
    /\ selOut' = [op |-> "name", created |-> TableName(selIn.category_name),
                  saved |-> SaveTableName(selIn.category_name)]
    /\ UNCHANGED <<selIn, storeVars, flatVars>>

SpecName == InitName /\ [][DeriveTableNames]_vars

(***************************************************************************)
(* Claims about the selectors (SpecSel).                                   *)
(***************************************************************************)
SelDates == DatesToFetch(selIn.today, selIn.days)
SelMatches(i) ==
    \E k \in 1..Len(SelDates) : Contains(DateStr(SelDates[k]), selIn.manifest[i].provenance)
SelMatching == {i \in 1..Len(selIn.manifest) : SelMatches(i)}

\* C6: the selector of fetch_privatization_plans_data returns exactly the
\* descriptors whose provenance contains the DD.MM.YYYY string of at least one
\* target date: each of them once, in manifest order, and no other descriptor.
C6_SelectsExactlyMatching ==
    selOut.op = "dates" =>
        /\ Len(selOut.found) = Cardinality(SelMatching)
        /\ \A i \in SelMatching :
              LET j == Cardinality({h \in SelMatching : h <= i})
              IN  /\ selOut.found[j].source = selIn.manifest[i].source
                  /\ selOut.found[j].provenance = selIn.manifest[i].provenance
                  /\ selOut.found[j].created = selIn.manifest[i].created

\* C6 witness: A for 05.01.2024 and B for 06.01.2024, selecting 06.01.2024
\* returned B only.
C6_Witness ==
    /\ selOut.op = "dates"
    /\ selIn.manifest = <<DescA, DescB>>
    /\ SelDates = <<6>>
    /\ selOut.found = <<FoundItem(DescB, 6)>>

NonEmptyPayload(p) == p # NetFail /\ Truthy(p)
SelNonEmpty == {i \in 1..Len(selIn.manifest) : NonEmptyPayload(selIn.payload[selIn.manifest[i].source])}

\* C7: when no descriptor of the manifest matches the target date (yesterday),
\* the selector with fallback returns the most recent descriptor (the last of
\* the manifest) whose payload is non-empty.
C7_FallbackMostRecentNonEmpty ==
    (/\ selOut.op = "yesterday"
     /\ ~\E i \in 1..Len(selIn.manifest) :
            Contains(DateStr(selIn.today - 1), selIn.manifest[i].provenance)
     /\ SelNonEmpty # {})
        => /\ selOut.result.ok
           /\ selOut.result.index = CHOOSE i \in SelNonEmpty : \A h \in SelNonEmpty : h <= i

(***************************************************************************)
(* Claims about the store and the runs (Spec).                             *)
(***************************************************************************)
\* The detail row a processed record came from, and what its file holds.
DetailOf(id) == CHOOSE d \in details : d.id = id
StoredFile(href) == files[FileName(href.v)]

\* The variant object of a document file for a type: the object, or JNull when
\* the file is no JSON document with a non-empty variant object of that type.
VariantOf(content, document_type) ==
    IF ~IsObj(content) THEN JNull
    ELSE LET so == StructuredObject(content)
         IN  IF so.raised \/ ~IsObj(so.value) \/ document_type \notin DOMAIN so.value.v
             THEN JNull
             ELSE IF IsObj(so.value.v[document_type]) /\ Truthy(so.value.v[document_type])
                  THEN so.value.v[document_type]
                  ELSE JNull

\* The document that the last step processed to the end (True or False), if any.
Processed == last.op = "doc" /\ last.ret \in {"true", "false"}
ProcessedType == DetailOf(last.id).documentType.v
ProcessedDoc == VariantOf(StoredFile(last.href), ProcessedType)

Saved == last.op = "save" /\ last.ret = "saved"

\* C1: after any sequence of runs no two rows of privatizationplans share a
\* source, no two rows of privatizationplansdetail share an href, no two rows of
\* privatizationobjects share an objectnumber (NULL is no shared value); and
\* running the step that has just been run once more, with the same input,
\* leaves the row counts of these tables as they are.
C1_UniqueAndIdempotent ==
    /\ \A r, q \in plans : r.source = q.source => r = q
    /\ \A r, q \in details : (r.href # JNull /\ r.href = q.href) => r = q
    /\ \A r, q \in objects :
          (r.objectnumber # JNull /\ r.objectnumber = q.objectnumber) => r = q
    /\ Saved =>
          LET again == SavePrivatizationData(run.tx, last.item, last.payload, runNo).tx
          IN  /\ Cardinality(again.plans) = Cardinality(plans)
              /\ Cardinality(again.details) = Cardinality(details)
    /\ Processed =>
          LET again == ProcessDocument(StoredFile(last.href), ProcessedType,
                                       DetailId(last.id), objects, docrows)
          IN  Cardinality(again.objects) = Cardinality(objects)

\* C2: when a descriptor whose source is already stored is sighted again, the
\* stored plan row afterwards holds the fields of the latest sighting, after
\* save_privatization_data_to_db as after parse_and_save_category_data.
C2_LastWriteWins ==
    /\ Saved =>
          \A r \in plans :
              r.source = last.item.source =>
                  /\ r.created = JS(last.item.created)
                  /\ r.valid = JS(last.item.valid)
                  /\ r.structure = JS(last.item.structure)
    /\ (last.op = "meta" /\ last.ret = "done") =>
          \A i \in 1..Len(last.manifest) :
              \A r \in plans :
                  r.source = last.manifest[i].source =>
                      /\ r.created = JS(last.manifest[i].created)
                      /\ r.provenance = JS(last.manifest[i].provenance)

\* C3: after process_document_file has ingested a plan document that holds a
\* privatizationObjects element with objectNumber X, privatizationobjects has
\* exactly one committed row with objectnumber X, and its name is the name the
\* document just ingested gives X.
C3_ObjectRowHoldsLatest ==
    (Processed /\ ProcessedType = "privatizationPlan" /\ ProcessedDoc # JNull)
        => LET list == GetOr(ProcessedDoc, "privatizationObjects", EmptyArr)
           IN  IsArr(list) =>
                  \A i \in 1..Len(list.v) :
                      (IsObj(list.v[i]) /\ Get(list.v[i], "objectNumber") # JNull)
                          => LET hit == {r \in objects :
                                            r.objectnumber = Get(list.v[i], "objectNumber")}
                             IN  /\ Cardinality(hit) = 1
                                 /\ \A r \in hit : r.name = Get(list.v[i], "name")

\* The rows of a type table that a detail's document has been given.
RowsOf(table_name, id) ==
    {r \in docrows : r.table = table_name
                     /\ r.flat["privatizationplansdetail_id"] = DetailId(id)}

\* C4: once fetch_privatization_plans_docs has processed to the end a document
\* whose variant object carries an id, its type table holds exactly one row
\* with that id_field; a document without id gets a row each time it is
\* processed.
C4_OneRowPerIdElseAppend ==
    (Processed /\ ProcessedDoc # JNull)
        => IF Get(ProcessedDoc, "id") # JNull
           THEN Cardinality({r \in docrows :
                                /\ r.table = TableOf(ProcessedType)
                                /\ "id_field" \in DOMAIN r.flat
                                /\ r.flat["id_field"] = Get(ProcessedDoc, "id")}) = 1
           ELSE /\ last.ret = "true"
                /\ RowsOf(TableOf(ProcessedType), last.id) # {}

\* Every child row names an existing parent row, in the tables `p` and `d`.
ParentsExist(p, d) == \A r \in d : \E q \in p : q.id = r.privatizationplansid

\* C5: in every database state, committed or as the open transaction sees it,
\* each detail row names an existing plan row and each object row an existing
\* detail row; and the detail rows a call of save_privatization_data_to_db
\* writes name the plan row of the call's source.
C5_ForeignKeysHold ==
    /\ ParentsExist(plans, details)
    /\ run.mode = "data" => ParentsExist(run.tx.plans, run.tx.details)
    /\ \A o \in objects : \E d \in details : DetailId(d.id) = o.privatizationplan_id
    /\ Saved =>
          \A d \in details :
              d.id \notin last.before =>
                  \E q \in plans : /\ q.id = d.privatizationplansid
                                   /\ q.source = last.item.source

\* C5 witness: a call has just written details under the plan row that it
\* looked up (stored by an earlier run), and an object of a detail is stored.
C5_Witness ==
    /\ Saved
    /\ \E d \in details : d.id \notin last.before
    /\ \E q \in plans : q.source = last.item.source /\ q.created_at < runNo
    /\ objects # {}

\* C8: a document file that exists is never requested again: an iteration that
\* finds the file sends no request, and no href is fetched and stored twice.
C8_CachedFileIsNotFetched ==
    /\ last.op = "doc" => (last.existed => ~last.net)
    /\ \A h \in DOMAIN fetches : fetches[h].stored <= 1

\* C8 witness: in a later run the record of H2 is processed from the stored
\* file, after exactly one request for it.
C8_Witness ==
    /\ last.op = "doc"
    /\ last.href = JS(H2)
    /\ last.existed
    /\ ~last.net
    /\ fetches[H2] = [requests |-> 1, stored |-> 1]
    /\ runNo = MaxRuns

\* C9: when the request for a document fails, fetch_and_save_document_file gives
\* no path, no row of a document table is written for the record, the loop goes
\* on with the rest of the queue; no record has a row without a stored file.
C9_FailedFetchIsSkipped ==
    /\ (last.op = "doc" /\ last.failed) =>
          /\ last.ret = "skip"
          /\ FileName(last.href.v) \notin DOMAIN files
          /\ \A t \in {TableOf(x) : x \in DocumentTypes} : RowsOf(t, last.id) = {}
          /\ run.mode = "docs"
          /\ run.queue = last.rest
    /\ \A r \in docrows :
          FileName(DetailOf(r.flat["privatizationplansdetail_id"].v).href.v)
              \in DOMAIN files

\* C9 witness: the request for H1 has failed in two runs, no row is there for
\* its record, and the loop still has the record of H2 to attempt.
C9_Witness ==
    /\ last.op = "doc"
    /\ last.failed
    /\ last.href = JS(H1)
    /\ fetches[H1] = [requests |-> 2, stored |-> 0]
    /\ last.rest # <<>>
    /\ run.queue = last.rest
    /\ \A r \in docrows : r.flat["privatizationplansdetail_id"] # DetailId(last.id)

(***************************************************************************)
(* Claims about the flattener (SpecFlat).                                  *)
(***************************************************************************)
\* C10: flattening a document of a known type never raises, whatever key or
\* sub-object is missing, null or of another shape than expected.
C10_FlattenNeverRaises == flatOut.op = "flatten" => ~flatOut.raised

\* The same document with its keys listed in another order.
Reordered(doc_data, order) == Doc(order, doc_data.v)

FlatOf(doc_data) ==
    Flatten(flatIn.document_type, doc_data, flatIn.privatizationplansdetail_id)

\* C11: the flat field map depends on the keys and values of the document
\* only: listing the same keys in any other order gives the same outcome and
\* the same map.
C11_FlattenIgnoresKeyOrder ==
    flatOut.op = "flatten" =>
        \A order \in Orders(DOMAIN flatIn.doc_data.v) :
            LET f == FlatOf(Reordered(flatIn.doc_data, order))
            IN  f.raised = flatOut.raised /\ f.flat = flatOut.flat

\* C12: whatever keys the document holds, every key of the flat field map is
\* a column of the table of the document's type, so the INSERT built from the
\* map names columns of that table only.
C12_FlatKeysAreColumns ==
    (flatOut.op = "flatten" /\ ~flatOut.raised) =>
        DOMAIN flatOut.flat \subseteq ColumnsOf(TableOf(flatIn.document_type))

\* The columns that the budgetRevenueForecast branch names (main.py 1058-1061).
BudgetRevenueForecastCols ==
    [budgetrevenueforecast_sumfirstyear |-> "sumFirstYear",
     budgetrevenueforecast_sumsecondyear |-> "sumSecondYear",
     budgetrevenueforecast_sumthirdyear |-> "sumThirdYear"]

\* flat holds, under every column of cols, the value that obj has for it.
Holds(flat, obj, cols) ==
    \A c \in DOMAIN cols : c \in DOMAIN flat /\ flat[c] = Get(obj, cols[c])

\* Where a sub-object is an object, the flat map holds its fields.
Projected(flat, parent, key, cols) ==
    (IsObj(parent) /\ IsObj(Get(parent, key))) => Holds(flat, Get(parent, key), cols)

\* C13: every fixed sub-object that the document holds as a JSON object
\* (hostingOrg, commonInfo.signedData, commonInfo.timeZone,
\* budgetRevenueForecast, reportData.enterpriseData) is found in the flat map
\* under its prefixed columns, with the sub-object's values.
C13_SubObjectsAreProjected ==
    (flatOut.op = "flatten" /\ ~flatOut.raised) =>
        LET d == flatIn.doc_data
            flat == flatOut.flat
            hostingOrg == IF flatIn.document_type = "privatizationDecision"
                          THEN FlatCols.decisionHostingOrg ELSE FlatCols.hostingOrg
        IN  /\ Projected(flat, d, "hostingOrg", hostingOrg)
            /\ Projected(flat, Get(d, "commonInfo"), "signedData", FlatCols.signedData)
            /\ Projected(flat, Get(d, "commonInfo"), "timeZone", FlatCols.timeZone)
            /\ Projected(flat, d, "budgetRevenueForecast", BudgetRevenueForecastCols)
            /\ Projected(flat, Get(d, "reportData"), "enterpriseData",
                         FlatCols.enterpriseData)

\* The same document with the array under `key` cut down to its first element.
FirstOnly(doc_data, key) ==
    Doc(doc_data.order, [doc_data.v EXCEPT ![key] = JA(<<Head(@.v)>>)])

\* The columns fed from the first element of the array under `key`.
FirstCols(key) ==
    IF key = "attachments" THEN FlatCols.attachment @@ FlatCols.attachmentType
    ELSE FlatCols.biddForm

FirstHolds(flat, key, first) ==
    IF key = "attachments"
    THEN /\ Holds(flat, first, FlatCols.attachment)
         /\ Holds(flat, GetOr(first, "attachmentType", EmptyObj), FlatCols.attachmentType)
    ELSE Holds(flat, first, FlatCols.biddForm)

\* C14: with one or more elements in attachments or biddForms, the
\* attachments_* / biddforms_* fields are those of the first element and the
\* map is the one of the document without the later elements; with an empty
\* array the fields are absent.
C14_FirstElementOnly ==
    (flatOut.op = "flatten" /\ ~flatOut.raised) =>
        \A key \in {"attachments", "biddForms"} :
            LET d == flatIn.doc_data
                list == Get(d, key)
            IN  IsArr(list) =>
                    IF list.v = <<>>
                    THEN DOMAIN FirstCols(key) \cap DOMAIN flatOut.flat = {}
                    ELSE /\ FirstHolds(flatOut.flat, key, list.v[1])
                         /\ FlatOf(FirstOnly(d, key)).flat = flatOut.flat

(***************************************************************************)
(* Claims about the routing of a plan's objects (Spec).                    *)
(***************************************************************************)
\* The same document without its privatizationObjects key.
WithoutObjects(doc_data) ==
    LET keys == DOMAIN doc_data.v \ {"privatizationObjects"}
    IN  Doc(SelectSeq(doc_data.order, LAMBDA k : k # "privatizationObjects"),
            [k \in keys |-> doc_data.v[k]])

\* C15: when process_document_file has run to its end on a document, the flat
\* map of a plan is the one of the document without privatizationObjects,
\* insert_privatization_object has been called once for each element of the
\* array, in array order, with the detail's id; for a document of another
\* type it has not been called.
C15_ObjectsAreRoutedNotFlattened ==
    (Processed /\ ProcessedDoc # JNull) =>
        LET list == GetOr(ProcessedDoc, "privatizationObjects", EmptyArr)
        IN  IF ProcessedType = "privatizationPlan"
            THEN /\ Flatten(ProcessedType, ProcessedDoc, DetailId(last.id))
                        = Flatten(ProcessedType, WithoutObjects(ProcessedDoc),
                                  DetailId(last.id))
                 /\ IsArr(list) =>
                        last.calls = [i \in 1..Len(list.v) |->
                                         [privatizationplansdetail_id |-> DetailId(last.id),
                                          obj |-> list.v[i]]]
            ELSE last.calls = <<>>

\* A decision that lists an object has been stored without any object of it,
\* and a plan has then been processed and its object handed over.
C15_Witness ==
    /\ Processed
    /\ ProcessedType = "privatizationPlan"
    /\ ProcessedDoc = PlanP2
    /\ last.calls = <<[privatizationplansdetail_id |-> DetailId(last.id),
                       obj |-> PrivObject("X1", "Lot2")]>>
    /\ \E r \in docrows : /\ r.table = "privatizationdecision"
                          /\ "decisionnumber" \in DOMAIN r.flat
                          /\ r.flat["decisionnumber"] = JS("N1")
    /\ \A o \in objects : o.objectnumber # JS("X9")

\* The flattening loop takes no field from the document: without a detail id
\* flat_data stays empty.
NothingRecognized(document_type, doc_data) ==
    LET f == Flatten(document_type, doc_data, JNull)
    IN  ~f.raised /\ DOMAIN f.flat = {}

\* C16: when the flattening of a document extracts no recognized field, the
\* run of fetch_privatization_plans_docs writes no row for it to the type
\* table and process_document_file returns False.
C16_NothingRecognizedNothingWritten ==
    (Processed /\ ProcessedDoc # JNull /\ NothingRecognized(ProcessedType, ProcessedDoc))
        => /\ last.ret = "false"
           /\ RowsOf(TableOf(ProcessedType), last.id) = {}

(***************************************************************************)
(* Claims about documents that hold nothing to store (Spec).               *)
(***************************************************************************)
\* The file that the last step has handed to process_document_file lacks
\* exportObject.structuredObject or the object of the record's type, or the
\* record's type is none of the four.
NoVariant ==
    /\ last.op = "doc"
    /\ last.ret \in {"true", "false", "crash"}
    /\ last.href # JNull
    /\ IsObj(StoredFile(last.href))
    /\ LET data == StoredFile(last.href)
           exportObject == Get(data, "exportObject")
           structured == IF IsObj(exportObject) THEN Get(exportObject, "structuredObject")
                         ELSE JNull
       IN  \/ ProcessedType \notin DocumentTypes
           \/ "exportObject" \notin DOMAIN data.v
           \/ IsObj(exportObject) /\ "structuredObject" \notin DOMAIN exportObject.v
           \/ IsObj(structured) /\ ProcessedType \notin DOMAIN structured.v

Runs == {"r1", "r2"}
Other(r) == IF r = "r1" THEN "r2" ELSE "r1"

NoWrites == [plans |-> {}, details |-> {}, objects |-> {}, docrows |-> {}]

\* The uncommitted writes of a run's transaction.
Pending(r) == run.of[r].tx.w

\* rows with the rows of writes put in place of those of the same id
Replace(rows, writes) == {x \in rows : \A w \in writes : w.id # x.id} \cup writes

\* What the statements of run r see.
Visible(r) ==
    [plans |-> plans \cup Pending(r).plans,
     details |-> details \cup Pending(r).details,
     objects |-> Replace(objects, Pending(r).objects),
     docrows |-> docrows \cup Pending(r).docrows]

\* A mutant of Publish: the commit leaves the detail rows behind.
PublishWithoutDetails(r) == [Visible(r) EXCEPT !.details = details]

\* conn.commit(): the tables once the transaction of run r is committed.
Publish(r) == Visible(r)

\* A mutant of KeyTaken: the unique index is lost.
KeyNeverTaken(rows) == FALSE

\* A unique index rejects the INSERT when a visible row has the key.
KeyTaken(rows) == rows # {}

\* The unique keys of the other transaction's uncommitted rows: an INSERT of
\* one of them waits until that transaction ends.
Held(r) ==
    LET w == Pending(Other(r))
    IN  [source |-> {x.source : x \in w.plans},
         href |-> {x.href : x \in w.details} \ {JNull},
         objectnumber |-> {x.objectnumber : x \in w.objects} \ {JNull},
         id_field |-> {<<x.table, x.flat["id_field"]>> :
                          x \in {d \in w.docrows : /\ "id_field" \in DOMAIN d.flat
                                                   /\ d.flat["id_field"] # JNull}}]

\* A mutant of Rollback: the writes of the transaction stay pending.
RollbackNothing(p) == p

\* conn.rollback()
Rollback(p) == [p EXCEPT !.tx.w = NoWrites]

\* The call ends without commit: the except of the caller (main.py 1252-1253)
\* or a return False; the loop goes on with the next element.
Ended(p, how) ==
    [p EXCEPT !.queue = Tail(@), !.pc = "idle", !.list = <<>>,
              !.results = Append(@, how)]
\* "if plan_id:" and the details of the payload (main.py 692-697)
ToDetails(p, plan_id, data) ==
    LET list == DetailsOf(data)
    IN  IF Truthy(list) /\ IsArr(list)
        THEN [p EXCEPT !.pc = "select_detail", !.plan_id = plan_id, !.list = list.v]
        ELSE [p EXCEPT !.pc = "commit", !.plan_id = plan_id]

Statement(r, op, p, serial) ==
    /\ run' = [run EXCEPT !.of[r] = p, !.serial = serial]
    /\ last' = [op |-> op, run |-> r]

Others == <<schema, files, runNo, fetches, selVars, flatVars>>

\* SET search_path and SELECT id FROM privatizationplans WHERE source = %s
SelectPlan(r) ==
    LET p == run.of[r]
    IN  /\ p.phase = "data" /\ p.pc = "idle" /\ p.queue # <<>>
        /\ LET call == Head(p.queue)
               existing == PlanBySource(Visible(r).plans, call.item.source)
           IN  Statement(r, "select_plan",
                     IF p.tx.state = "aborted" THEN Ended(p, "aborted")
                     ELSE IF existing # {}
                     THEN ToDetails(p, (CHOOSE x \in existing : TRUE).id, call.data)
                     ELSE [p EXCEPT !.pc = "insert_plan"], run.serial)
        /\ UNCHANGED <<plans, details, objects, docrows>>
        /\ UNCHANGED Others

\* INSERT INTO privatizationplans ... RETURNING id
InsertPlan(r) ==
    LET p == run.of[r]
        call == Head(p.queue)
        id == run.serial.plans + 1
        row == PlanRow(id, call.item.source, JS(call.item.created), JNull,
                       JS(call.item.valid), JS(call.item.structure), 0)
    IN  /\ p.pc = "insert_plan"
        /\ call.item.source \notin Held(r).source
        /\ Statement(r, "insert_plan",
                     IF KeyTaken(PlanBySource(Visible(r).plans, call.item.source))
                     THEN [Ended(p, "unique") EXCEPT !.tx.state = "aborted"]
                     ELSE ToDetails([p EXCEPT !.tx.w.plans = @ \cup {row}], id, call.data),
                     [run.serial EXCEPT !.plans = id])
        /\ UNCHANGED <<plans, details, objects, docrows>>
        /\ UNCHANGED Others

\* The head of "for detail in details": the .get calls and
\* SELECT id FROM privatizationplansdetail WHERE href = %s
SelectDetail(r) ==
    LET p == run.of[r]
    IN  /\ p.pc = "select_detail"
        /\ Statement(r, "select_detail",
                 IF p.list = <<>> THEN [p EXCEPT !.pc = "commit"]
                 ELSE IF ~IsObj(Head(p.list)) THEN Ended(p, "pyerror")
                 ELSE IF DetailByHref(Visible(r).details,
                                      GetOr(Head(p.list), "href", NoText)) # {}
                 THEN [p EXCEPT !.list = Tail(@)]
                 ELSE [p EXCEPT !.pc = "insert_detail"], run.serial)
        /\ UNCHANGED <<plans, details, objects, docrows>>
        /\ UNCHANGED Others

\* INSERT INTO privatizationplansdetail
InsertDetail(r) ==
    LET p == run.of[r]
        detail == Head(p.list)
        href == GetOr(detail, "href", NoText)
        id == run.serial.details + 1
    IN  /\ p.pc = "insert_detail"
        /\ href \notin Held(r).href
        /\ Statement(r, "insert_detail",
                     IF ~ValidTimestamp(GetOr(detail, "publishDate", JS("")))
                     THEN [Ended(p, "dberror") EXCEPT !.tx.state = "aborted"]
                     ELSE IF KeyTaken(DetailByHref(Visible(r).details, href))
                     THEN [Ended(p, "unique") EXCEPT !.tx.state = "aborted"]
                     ELSE [p EXCEPT !.tx.w.details = @ \cup {DetailRow(id, p.plan_id, detail)},
                                    !.list = Tail(@), !.pc = "select_detail"],
                     [run.serial EXCEPT !.details = id])
        /\ UNCHANGED <<plans, details, objects, docrows>>
        /\ UNCHANGED Others

\* conn.commit() of save_privatization_data_to_db and of process_document_file
Commit(r) ==
    LET p == run.of[r]
        saved == p.pc = "commit"
    IN  /\ p.pc \in {"commit", "commit_doc"}
        /\ plans' = Publish(r).plans
        /\ details' = Publish(r).details
        /\ objects' = Publish(r).objects
        /\ docrows' = Publish(r).docrows
        /\ Statement(r, "commit",
                     [Ended(p, IF saved THEN "saved" ELSE "true") EXCEPT !.tx.w = NoWrites],
                     run.serial)
        /\ UNCHANGED Others

\* conn.close() after either loop: what is not committed is rolled back.
Close(r) ==
    LET p == run.of[r]
    IN  /\ p.phase \in {"data", "docs"} /\ p.pc = "idle" /\ p.queue = <<>>
        /\ Statement(r, "close",
                 [p EXCEPT !.tx = [state |-> "open", w |-> NoWrites],
                           !.phase = IF @ = "data" THEN "between" ELSE "closed"], run.serial)
        /\ UNCHANGED <<plans, details, objects, docrows>>
        /\ UNCHANGED Others

\* The file of an href, as the documents directory holds it.
FileOf(href) ==
    CASE href = JS(H1) -> File("privatizationPlan", PlanNoId)
      [] href = JS(H2) -> File("privatizationPlan", PlanP2)
      [] OTHER -> File("privatizationDecision", DecisionD1)

\* fetch_privatization_plans_docs up to the loop: SELECT ... ORDER BY id
StartDocsRun(r) ==
    LET p == run.of[r]
    IN  /\ p.phase = "between"
        /\ Statement(r, "select_records",
                 [p EXCEPT !.phase = "docs", !.queue = SortById(details)], run.serial)
        /\ UNCHANGED <<plans, details, objects, docrows>>
        /\ UNCHANGED Others

\* process_document_file up to the loop over privatizationObjects
ReadDocument(r) ==
    LET p == run.of[r]
    IN  /\ p.phase = "docs" /\ p.pc = "idle" /\ p.queue # <<>>
        /\ LET record == Head(p.queue)
               document_type == record.documentType.v
               doc_data == VariantOf(FileOf(record.href), document_type)
               list == IF doc_data = JNull THEN JNull
                       ELSE GetOr(doc_data, "privatizationObjects", EmptyArr)
           IN  Statement(r, "read_document",
                     IF doc_data = JNull THEN Ended(p, "false")
                     ELSE IF document_type = "privatizationPlan" /\ IsArr(list)
                     THEN [p EXCEPT !.pc = "upsert", !.list = list.v]
                     ELSE [p EXCEPT !.pc = "upsert", !.list = <<>>], run.serial)
        /\ UNCHANGED <<plans, details, objects, docrows>>
        /\ UNCHANGED Others

\* insert_privatization_object: INSERT ... ON CONFLICT (objectnumber) DO UPDATE
UpsertStatement(r) ==
    LET p == run.of[r]
        record == Head(p.queue)
    IN  /\ p.pc = "upsert"
        /\ IF p.list = <<>>
           THEN Statement(r, "objects_done", [p EXCEPT !.pc = "insert_row"], run.serial)
           ELSE LET params == ObjectParams(Head(p.list)).set
                    hit == {x \in Visible(r).objects :
                               params.objectnumber # JNull
                               /\ x.objectnumber = params.objectnumber}
                    id == IF hit = {} THEN run.serial.objects + 1
                          ELSE (CHOOSE x \in hit : TRUE).id
                    row == params @@ [id |-> id,
                                      privatizationplan_id |-> DetailId(record.id),
                                      created_at |-> IF hit = {} THEN runNo
                                                     ELSE (CHOOSE x \in hit : TRUE).created_at]
                IN  /\ params.objectnumber \notin Held(r).objectnumber
                    /\ Statement(r, "upsert",
                                 [p EXCEPT !.tx.w.objects = Replace(@, {row}),
                                           !.list = Tail(@)],
                                 [run.serial EXCEPT !.objects = IF hit = {} THEN id ELSE @])
        /\ UNCHANGED <<plans, details, objects, docrows>>
        /\ UNCHANGED Others

\* INSERT INTO <table_name>, and conn.rollback() when it fails
InsertRow(r) ==
    LET p == run.of[r]
        record == Head(p.queue)
        document_type == record.documentType.v
        doc_data == VariantOf(FileOf(record.href), document_type)
        flat == Flatten(document_type, doc_data, DetailId(record.id)).flat
        table_name == TableOf(document_type)
        id == run.serial.docrows + 1
    IN  /\ p.pc = "insert_row"
        /\ ("id_field" \in DOMAIN flat => <<table_name, flat["id_field"]>> \notin Held(r).id_field)
        /\ Statement(r, "insert_row",
                     IF InsertFails(Visible(r).docrows, table_name, flat)
                     THEN Rollback(Ended(p, "false"))
                     ELSE [p EXCEPT !.pc = "commit_doc",
                                    !.tx.w.docrows =
                                        @ \cup {[table |-> table_name, id |-> id,
                                                 flat |-> flat]}],
                     [run.serial EXCEPT !.docrows = id])
        /\ UNCHANGED <<plans, details, objects, docrows>>
        /\ UNCHANGED Others

\* Both runs have created their tables and are about to load their two items;
\* the sources answer each run on their own.
InitOverlap ==
    LET call(descriptor, date, data) ==
            [item |-> FoundItem(descriptor, date), data |-> data]
        queues == {<<call(DescA, 5, a), call(DescB, 6, b)>> :
                      a \in {PayPlans, PayNotDict}, b \in {PayDict, PayNoDate}}
        process(queue) ==
            [phase |-> "data", queue |-> queue, pc |-> "idle",
             tx |-> [state |-> "open", w |-> NoWrites], plan_id |-> 0, list |-> <<>>,
             results |-> <<>>]
    IN  /\ schema = [plans |-> "privatization", detail |-> TRUE, docs |-> TRUE]
        /\ plans = {} /\ details = {} /\ objects = {} /\ docrows = {}
        /\ files = <<>>
        /\ runNo = 0
        /\ fetches = [h \in {H1, H2, H3} |-> [requests |-> 0, stored |-> 0]]
        /\ last = Nothing
        /\ run \in [mode : {"overlap"}, of : [Runs -> {process(q) : q \in queues}],
                    serial : {[plans |-> 0, details |-> 0, objects |-> 0, docrows |-> 0]}]
        /\ selIn = Nothing /\ selOut = Nothing
        /\ FlatIdle

OverlapNext ==
    \E r \in Runs :
        \/ SelectPlan(r)
        \/ InsertPlan(r)
        \/ SelectDetail(r)
        \/ InsertDetail(r)
        \/ Commit(r)
        \/ Close(r)
        \/ StartDocsRun(r)
        \/ ReadDocument(r)
        \/ UpsertStatement(r)
        \/ InsertRow(r)

SpecOverlap == InitOverlap /\ [][OverlapNext]_vars

(***************************************************************************)
(* Claims about overlapping runs (SpecOverlap).                            *)
(***************************************************************************)
\* How the calls of run r have ended so far.
Outcomes(r) == {run.of[r].results[i] : i \in DOMAIN run.of[r].results}

\* C18: when an INSERT of a run meets the unique constraint because the other
\* run has inserted the same source or href in the meantime, the item is not
\* reported as failed: no call of save_privatization_data_to_db ends with the
\* unique violation.
C18_ConflictIsNotAFailure == \A r \in Runs : "unique" \notin Outcomes(r)

\* C19: whatever the interleaving, the committed tables never hold two plans
\* with the same source, two details with the same href or two objects with
\* the same objectnumber (NULL is no shared value).
C19_NoDuplicateKeys ==
    /\ \A x, y \in plans : x.source = y.source => x = y
    /\ \A x, y \in details : (x.href # JNull /\ x.href = y.href) => x = y
    /\ \A x, y \in objects :
          (x.objectnumber # JNull /\ x.objectnumber = y.objectnumber) => x = y

\* Both runs have ended, one of them was refused a key that the other had
\* inserted, and the tables hold both snapshots, their details and the objects.
C19_Witness ==
    /\ \A r \in Runs : run.of[r].phase = "closed"
    /\ \E r \in Runs : "unique" \in Outcomes(r)
    /\ Cardinality(plans) = 2
    /\ Cardinality(details) = 3
    /\ \E x \in objects : x.objectnumber = JS("X1")
    /\ Cardinality({x \in objects : x.objectnumber = JNull}) = 2

\* C20: the committed tables change at a commit only; the commit of a run
\* makes every uncommitted write of the run visible at once and ends the
\* call, so that a call writes nothing after it; a rollback or the close of
\* the connection makes none of them visible.
C20_CallsCommitAsAWhole ==
    [][LET r == last'.run
           w == run.of[r].tx.w
       IN  IF last'.op = "commit"
           THEN /\ w.plans \subseteq plans'
                /\ w.details \subseteq details'
                /\ w.objects \subseteq objects'
                /\ w.docrows \subseteq docrows'
                /\ run'.of[r].tx.w = NoWrites
                /\ run'.of[r].pc = "idle"
                /\ Len(run'.of[r].queue) < Len(run.of[r].queue)
           ELSE /\ UNCHANGED <<plans, details, objects, docrows>>
                /\ run'.of[r].tx.w # w =>
                       \/ run'.of[r].tx.w = NoWrites
                       \/ run'.of[r].pc # "idle"]_vars

\* A run has just committed a plan document: its object rows and its flat row
\* are in the tables together, while the other run is in the middle of a call
\* with writes of its own.
C20_Witness ==
    /\ last.op = "commit"
    /\ Outcomes(last.run) # {}
    /\ run.of[last.run].results[Len(run.of[last.run].results)] = "true"
    /\ \E x \in objects, d \in docrows :
          /\ d.table = "privatizationplan"
          /\ x.privatizationplan_id = d.flat["privatizationplansdetail_id"]
    /\ Pending(Other(last.run)) # NoWrites
    /\ run.of[Other(last.run)].pc # "idle"

(***************************************************************************)
(* Failures of single items.                                               *)
(***************************************************************************)
\* C21: an item of a snapshot run whose store call fails in the database fails
\* on its own data: the same call on a fresh transaction over the committed
\* tables fails too.  No item fails because an earlier item of the run failed.
C21_FailureIsConfinedToItsItem ==
    (last.op = "save" /\ last.ret = "dberror")
    => SavePrivatizationData([state |-> "open", plans |-> plans, details |-> details],
                             last.item, last.payload, runNo).end = "dberror"

\* C22: a step of the snapshot run whose download fails writes nothing (the
\* committed tables and the open transaction stay as they were), leaves the
\* loaded count alone and goes on with the remaining snapshots of the queue.
C22_FailedDownloadIsSkipped ==
    [][(run.mode = "data" /\ last'.op = "save" /\ last'.payload = NetFail)
       => /\ UNCHANGED <<plans, details, objects, docrows>>
          /\ run'.mode = "data"
          /\ run'.tx = run.tx
          /\ run'.loaded = run.loaded
          /\ run'.queue = Tail(run.queue)]_vars

\* C22 witness: the download of a.json has failed, b.json is still in the
\* queue; and the state where b.json has then been stored, alone.
C22_Witness ==
    /\ last.op = "save" /\ last.ret = "netfail" /\ last.source = SrcA
    /\ run.mode = "data" /\ Len(run.queue) = 1 /\ Head(run.queue).source = SrcB
    /\ run.loaded = 0
    /\ ENABLED (DataItem(PayDict) /\ last'.ret = "saved" /\ run'.loaded = 1)

\* C23: the documents directory never holds a partially written file: a
\* write that fails part-way leaves no file under the href's file name.
C23_NoPartialFileInCache == \A n \in DOMAIN files : files[n] # Truncated

(***************************************************************************)
(* The shape of privatizationplans.                                        *)
(***************************************************************************)
\* C24: once privatizationplans exists it has the columns that either mode
\* would have created it with, and no --metaupdate run fails in its INSERT (the
\* only statement of the model that can name a column the table lacks).
C24_OneColumnSet ==
    /\ schema.plans # "none" =>
          \A made_by \in {"category", "privatization"} :
             PlansColumns(schema.plans) = PlansColumns(made_by)
    /\ last.op = "meta" => last.ret = "done"

AsciiLetters ==
    {"a", "b", "c", "d", "e", "f", "g", "h", "i", "j", "k", "l", "m", "n", "o", "p", "q",
     "r", "s", "t", "u", "v", "w", "x", "y", "z", "A", "B", "C", "D", "E", "F", "G", "H",
     "I", "J", "K", "L", "M", "N", "O", "P", "Q", "R", "S", "T", "U", "V", "W", "X", "Y",
     "Z"}

\* C25: create_category_table and parse_and_save_category_data derive the same
\* table name from an identifier, and the name begins with a letter whenever the
\* identifier holds a letter.
C25_SameNameStartingWithLetter ==
    selOut.op = "name" =>
       /\ selOut.created = selOut.saved
       /\ (\E i \in DOMAIN selIn.category_name :
              selIn.category_name[i] \in AsciiLetters)
          => /\ selOut.created # <<>>
             /\ selOut.created[1] \in AsciiLetters

(***************************************************************************)
(* The database connection.                                                *)
(***************************************************************************)
\* C26: a run opens at most one connection, and when a run has ended, in
\* whatever way, every connection it opened has been closed.
C26_ConnectionClosedOnEveryPath ==
    /\ run.mode # "overlap" => run.opened <= 1
    /\ run.mode = "idle" => run.closed = run.opened

(***************************************************************************)
(* Frame of the store calls.                                               *)
(***************************************************************************)
\* The hrefs of the details of a payload.
HrefsOf(payload) ==
    LET list == DetailsOf(payload)
    IN  IF IsArr(list) THEN {GetOr(list.v[i], "href", NoText) : i \in DOMAIN list.v}
        ELSE {}

\* C27: a call of save_privatization_data_to_db that ends normally for a source
\* its connection already sees stored writes no plan row; every detail row
\* seen before is still there with every field and its owner unchanged; the new
\* rows are those of the payload's hrefs not seen before, under the id of the
\* existing plan row.
C27_StoredDetailsAreLeftAlone ==
    [][(/\ run.mode = "data"
        /\ last'.op = "save"
        /\ last'.ret = "saved"
        /\ PlanBySource(run.tx.plans, last'.source) # {})
       => LET plan_id == (CHOOSE r \in PlanBySource(run.tx.plans, last'.source) : TRUE).id
              seen == {d.href : d \in run.tx.details} \ {JNull}
              added == run'.tx.details \ run.tx.details
          IN  /\ run'.tx.plans = run.tx.plans
              /\ run.tx.details \subseteq run'.tx.details
              /\ \A d \in added : d.privatizationplansid = plan_id
              /\ {d.href : d \in added} = HrefsOf(last'.payload) \ seen
              /\ details' = run'.tx.details]_vars

\* C27 witness: b.json, stored in an earlier run, is saved again with the
\* details H2 and H3; H2 was stored under the plan of a.json and stays there,
\* H3 is new and belongs to the plan of b.json.
C27_Witness ==
    /\ last.op = "save" /\ last.ret = "saved" /\ last.source = SrcB
    /\ last.payload = PayDict
    /\ \E a \in PlanBySource(plans, SrcA), b \in PlanBySource(plans, SrcB) :
          /\ b.created_at < runNo
          /\ \E d \in details : /\ d.href = JS(H2) /\ d.id \in last.before
                                 /\ d.privatizationplansid = a.id
          /\ \E d \in details : /\ d.href = JS(H3) /\ d.id \notin last.before
                                 /\ d.privatizationplansid = b.id

(***************************************************************************)
(* The key of the document cache.                                          *)
(***************************************************************************)
\* The last path segment of an href.
Basename(h) == h[Len(h)]

\* C28: once a document fetched from one href has been stored, an iteration on
\* a record with another href of the same last path segment sends no request,
\* writes no file and processes the stored file of the first href.
C28_CacheKeyedByBasename ==
    [][\A first \in DOMAIN fetches, second \in DOMAIN fetches :
          (/\ first # second
           /\ Basename(first) = Basename(second)
           /\ fetches[first].stored > 0
           /\ run.mode = "docs"
           /\ run.queue # <<>>
           /\ Head(run.queue).href = JS(second))
          => LET record == Head(run.queue)
                 r == ProcessDocument(files[Basename(first)], record.documentType.v,
                                      DetailId(record.id), objects, docrows)
             IN  /\ fetches' = fetches
                 /\ files' = files
                 /\ last'.op = "doc" /\ last'.href = JS(second)
                 /\ last'.existed /\ ~last'.net
                 /\ last'.ret = (IF r.ret = "raise" THEN "crash" ELSE r.ret)
                 /\ objects' = r.objects
                 /\ docrows' = r.docrows]_vars

\* C28 witness: docs/a/f1.json was fetched and stored; the record of
\* docs/c/f1.json, a decision, has been processed from that file (a plan, so
\* nothing was extracted) and docs/c/f1.json has never been requested.
C28_Witness ==
    /\ last.op = "doc" /\ last.href = JS(H3)
    /\ last.existed /\ ~last.net /\ last.ret = "false"
    /\ fetches[H1].stored = 1
    /\ fetches[H3].requests = 0
    /\ files["f1.json"] = File("privatizationPlan", PlanNoId)

(***************************************************************************)
(* The rows of one document (SpecOverlap).                                 *)
(***************************************************************************)
\* C29: when the INSERT of the flat row fails, the call ends with False, the
\* object rows it has upserted are rolled back and the tables are as before;
\* a call returns True only at the commit that publishes its flat row and its
\* object rows; and the committed object rows change in no other step of a
\* document run.
C29_ObjectsCommitWithTheirDocument ==
    [][LET r == last'.run
           p == run.of[r]
           q == run'.of[r]
       IN  /\ (last'.op = "insert_row" /\ q.pc = "idle")
              => /\ q.results = Append(p.results, "false")
                 /\ q.tx.w = NoWrites
                 /\ UNCHANGED <<objects, docrows>>
           /\ (p.phase = "docs" /\ q.results = Append(p.results, "true"))
              => /\ last'.op = "commit"
                 /\ p.tx.w.docrows # {}
                 /\ docrows' = docrows \cup p.tx.w.docrows
                 /\ objects' = Replace(objects, p.tx.w.objects)
           /\ (p.phase = "docs" /\ objects' # objects)
              => /\ q.results = Append(p.results, "true")
                 /\ docrows' # docrows]_vars

\* C29 witness: a run has upserted object X1 as "Lot2" for the plan P2 and its
\* INSERT of the plan row has failed (the other run had stored P2): the run
\* has no pending write, and X1 is still the committed "Lot".
C29_Witness ==
    /\ last.op = "insert_row"
    /\ run.of[last.run].pc = "idle"
    /\ run.of[last.run].results[Len(run.of[last.run].results)] = "false"
    /\ Pending(last.run) = NoWrites
    /\ \E d \in docrows : /\ "id_field" \in DOMAIN d.flat
                           /\ d.flat["id_field"] = JS("P2")
    /\ \E x \in objects : x.objectnumber = JS("X1") /\ x.name = JS("Lot")

(***************************************************************************)
(* The owner of a privatization object.                                    *)
(***************************************************************************)
\* C30: when a document run commits a plan document for one detail record,
\* every object number of the document that was stored under another detail
\* record keeps its single row, with its id and its created_at, and the row
\* now belongs to the detail record of the document.
C30_ObjectIsReownedNotRecreated ==
    [][(run.mode = "docs" /\ last'.op = "doc" /\ last'.ret = "true")
       => \A old \in objects :
             (/\ old.privatizationplan_id # DetailId(last'.id)
              /\ \E i \in DOMAIN last'.calls :
                    /\ IsObj(last'.calls[i].obj)
                    /\ Get(last'.calls[i].obj, "objectNumber") = old.objectnumber
                    /\ old.objectnumber # JNull)
             => LET now == {x \in objects' : x.objectnumber = old.objectnumber}
                IN  /\ Cardinality(now) = 1
                    /\ \A x \in now : /\ x.id = old.id
                                      /\ x.created_at = old.created_at
                                      /\ x.privatizationplan_id = DetailId(last'.id)]_vars

\* C30 witness: the plan of docs/a/f1.json has been committed in a later run
\* than the one that created object X1; the plan P2 of the other record, which
\* names X1 too, is stored; X1 belongs to the record of docs/a/f1.json and its
\* created_at is that of the earlier run.
C30_Witness ==
    /\ last.op = "doc" /\ last.ret = "true" /\ last.href = JS(H1)
    /\ last.calls # <<>>
    /\ \E d \in docrows : /\ "id_field" \in DOMAIN d.flat
                           /\ d.flat["id_field"] = JS("P2")
                           /\ d.flat["privatizationplansdetail_id"] # DetailId(last.id)
    /\ \E x \in objects : /\ x.objectnumber = JS("X1")
                           /\ x.privatizationplan_id = DetailId(last.id)
                           /\ x.created_at < runNo

====
